---- MODULE Spec2Model ----
(***************************************************************************)
(* A model of loom's client-side query layer (src/loom/query.py): the row  *)
(* codec (data_row_to_protobuf / protobuf_to_data_row), the transport      *)
(* (ProtobufServer.send / receive over the engine's stdin and stdout) and  *)
(* the query session (QueryServer).                                        *)
(***************************************************************************)
EXTENDS Integers, Sequences, FiniteSets, TLC

\* ------------------------------------------------------------------------
\* Bounds
\* ------------------------------------------------------------------------
MaxSlots == 3
MaxCount == 1
MaxReal == 2
MaxRows == 4
MaxBuffer == 3
PipeCap == 1
MaxSamples == 2
MaxRequests == 3
MaxSets == 2
MaxMean == 2
MaxVariance == 1
MaxValues == 1

\* ------------------------------------------------------------------------
\* Logical rows.  A slot holds None or a typed value.  A real's v counts
\* halves (v = 1 is 0.5, v = 2 is 1.0), a boolean's and an integer's v is
\* the number itself, so that Python's numeric == can be told from
\* identity of type and value.
\* ------------------------------------------------------------------------
None == [t |-> "none", v |-> 0]

PyBool(v) == [t |-> "bool", v |-> v]

PyInt(v) == [t |-> "int", v |-> v]

PyFloat(v) == [t |-> "float", v |-> v]

\* A value of a type the codec has no list for: a string.
PyStr == [t |-> "str", v |-> 0]

Observed == {PyBool(v) : v \in 0..1} \cup {PyInt(v) : v \in 0..MaxCount}
              \cup {PyFloat(v) : v \in 0..MaxReal}

Values == {None} \cup Observed \cup {PyStr}

RowsOfLen(n) == [1..n -> Values]

Rows == UNION {RowsOfLen(n) : n \in 0..MaxSlots}

\* Twice the number a value stands for.
Halves(x) == IF x.t = "float" THEN x.v ELSE 2 * x.v

\* Python's == on two slot values: None equals only None, and bool, int and
\* float compare by number (True == 1 == 1.0).
PyEq(x, y) ==
    IF x.t = "none" \/ y.t = "none" THEN x.t = y.t ELSE Halves(x) = Halves(y)

\* Python's == on two lists of slot values.
PyListEq(a, b) ==
    /\ Len(a) = Len(b)
    /\ \A i \in 1..Len(a) : PyEq(a[i], b[i])

\* ------------------------------------------------------------------------
\* The wire structure ProductValue.Diff
\* ------------------------------------------------------------------------
NONE == "NONE"

DENSE == "DENSE"

SPARSE == "SPARSE"

\* A ProductValue with every field at its default (sparsity not yet set).
EmptyProductValue ==
    [observed |-> [sparsity |-> "unset", dense |-> <<>>, sparse |-> <<>>],
     booleans |-> <<>>, counts |-> <<>>, reals |-> <<>>]

\* diff.Clear(): every field of the message back to its default.
Clear(diff) == [pos |-> EmptyProductValue, neg |-> EmptyProductValue]

none_to_protobuf_NoClear(diff) ==
    [diff EXCEPT !.neg.observed.sparsity = NONE,
                 !.pos.observed.sparsity = NONE]

none_to_protobuf(diff) ==
    [Clear(diff) EXCEPT !.neg.observed.sparsity = NONE,
                        !.pos.observed.sparsity = NONE]

\* The keys of fields: bool, int and float.
Supported(val) == val.t \in {"bool", "int", "float"}

Encodable_Always(data_row) == TRUE

\* data_row_to_protobuf returns: fields[type(val)] finds a list for every
\* observed value of the row.  It raises KeyError otherwise.
Encodable(data_row) ==
    \A i \in 1..Len(data_row) : data_row[i] = None \/ Supported(data_row[i])

\* fields[type(val)]
FieldOf(val) ==
    CASE val.t = "bool" -> "booleans"
      [] val.t = "int" -> "counts"
      [] val.t = "float" -> "reals"

\* One pass of `for val in data_row`: the mask gets one boolean per slot and
\* an observed value is appended to the list of its type.  The loop ends
\* at a value fields has no list for, its mask entry already appended.
RECURSIVE EncodeLoop(_, _, _)
EncodeLoop(data_row, i, pos) ==
    IF i > Len(data_row) THEN pos
    ELSE LET val == data_row[i]
             observed == val # None
             masked == [pos EXCEPT !.observed.dense = Append(@, observed)]
         IN IF observed /\ ~Supported(val) THEN masked
            ELSE EncodeLoop(data_row, i + 1,
                            IF observed
                            THEN [masked EXCEPT
                                    ![FieldOf(val)] = Append(@, val.v)]
                            ELSE masked)

data_row_to_protobuf_BoolAsCount(data_row, diff) ==
    IF \A i \in 1..Len(data_row) : data_row[i] = None
    THEN none_to_protobuf(diff)
    ELSE LET cleared == Clear(diff)
             asCount == [i \in 1..Len(data_row) |->
                            IF data_row[i].t = "bool"
                            THEN PyInt(data_row[i].v) ELSE data_row[i]]
             pos == [cleared.pos EXCEPT !.observed.sparsity = DENSE]
         IN [neg |-> [cleared.neg EXCEPT !.observed.sparsity = NONE],
             pos |-> EncodeLoop(asCount, 1, pos)]

data_row_to_protobuf_NoClear(data_row, diff) ==
    IF \A i \in 1..Len(data_row) : data_row[i] = None
    THEN none_to_protobuf(diff)
    ELSE LET pos == [diff.pos EXCEPT !.observed.sparsity = DENSE]
         IN [neg |-> [diff.neg EXCEPT !.observed.sparsity = NONE],
             pos |-> EncodeLoop(data_row, 1, pos)]

data_row_to_protobuf(data_row, diff) ==
    IF \A i \in 1..Len(data_row) : data_row[i] = None
    THEN none_to_protobuf(diff)
    ELSE LET cleared == Clear(diff)
             pos == [cleared.pos EXCEPT !.observed.sparsity = DENSE]
         IN [neg |-> [cleared.neg EXCEPT !.observed.sparsity = NONE],
             pos |-> EncodeLoop(data_row, 1, pos)]

\* chain(data.booleans, data.counts, data.reals), each value as the Python
\* object the list it sits in yields.
Packed(data) ==
    [i \in 1..Len(data.booleans) |-> PyBool(data.booleans[i])]
    \o [i \in 1..Len(data.counts) |-> PyInt(data.counts[i])]
    \o [i \in 1..Len(data.reals) |-> PyFloat(data.reals[i])]

\* The number of TRUE entries among the first n of a mask.
RECURSIVE CountTrue(_, _)
CountTrue(mask, n) ==
    IF n = 0 THEN 0
    ELSE CountTrue(mask, n - 1) + (IF mask[n] THEN 1 ELSE 0)

\* protobuf_to_data_row: err is "AssertionError" when the negative mask is
\* not NONE, "StopIteration" when next(packed) finds the chain exhausted,
\* and "ok" with the decoded row otherwise.
protobuf_to_data_row(diff) ==
    LET data == diff.pos
        packed == Packed(data)
        dense == data.observed.dense
    IN IF diff.neg.observed.sparsity # NONE
       THEN [err |-> "AssertionError", row |-> <<>>]
       ELSE IF CountTrue(dense, Len(dense)) > Len(packed)
       THEN [err |-> "StopIteration", row |-> <<>>]
       ELSE [err |-> "ok",
             row |-> [i \in 1..Len(dense) |->
                        IF dense[i] THEN packed[CountTrue(dense, i)]
                        ELSE None]]

\* A Diff that has been used before: both halves hold masks and values.
UsedDiff ==
    [pos |-> [observed |-> [sparsity |-> DENSE, dense |-> <<TRUE, TRUE, TRUE>>,
                            sparse |-> <<>>],
              booleans |-> <<1>>, counts |-> <<1>>, reals |-> <<1>>],
     neg |-> [observed |-> [sparsity |-> DENSE, dense |-> <<TRUE>>,
                            sparse |-> <<>>],
              booleans |-> <<1>>, counts |-> <<>>, reals |-> <<>>]]

PriorDiffs == {Clear(UsedDiff), UsedDiff}

\* ------------------------------------------------------------------------
\* Wire frames: Query.Request and Query.Response
\* ------------------------------------------------------------------------
EmptyDiff == Clear(UsedDiff)

\* Query.Request() with every field at its default.
EmptyRequest ==
    [id |-> 0, kind |-> "unset",
     score |-> [data |-> EmptyDiff],
     sample |-> [data |-> EmptyDiff,
                 to_sample |-> EmptyProductValue.observed,
                 sample_count |-> 0],
     entropy |-> [conditional |-> EmptyDiff, row_sets |-> <<>>,
                  col_sets |-> <<>>, sample_count |-> 0],
     score_derivative |-> [update_data |-> EmptyDiff, score_data |-> <<>>,
                           row_limit |-> 0]]

\* Query.Response() with every field at its default.  answers is no field
\* of the message: it notes the request the engine wrote the response for.
EmptyResponse ==
    [id |-> 0, error |-> <<>>, answers |-> EmptyRequest,
     score |-> [score |-> 0],
     sample |-> [samples |-> <<>>],
     entropy |-> [means |-> <<>>, variances |-> <<>>],
     score_derivative |-> [ids |-> <<>>, score_diffs |-> <<>>]]

\* `if response.error:` a repeated field is true when it holds an entry.
HasError_Never(response) == FALSE

HasError(response) == Len(response.error) > 0

\* ------------------------------------------------------------------------
\* State
\* ------------------------------------------------------------------------
VARIABLES
    data_row, diff, prior, decoded, cpc,  \* the codec on its own
    stdin,      \* proc.stdin: request frames written and not yet read
    stdout,     \* proc.stdout: response frames written and not yet read
    engine,     \* the request the engine has read and not yet answered
    proc,       \* the engine process and the traffic of its two pipes
    pc,         \* the client: "idle", or blocked in "send" or "receive"
    cur,        \* the call the client is executing
    gen,        \* the generator object returned by batch_score
    nextId,     \* the number of request ids drawn so far
    budget,     \* the number of requests the session may still be given
    outcome     \* how the last call or next(gen) ended

codecVars == <<data_row, diff, prior, decoded, cpc>>

pipeVars == <<stdin, stdout, engine, proc>>

clientVars == <<pc, cur, gen, nextId, budget, outcome>>

sessionVars == <<stdin, stdout, engine, proc, pc, cur, gen, nextId, budget,
                 outcome>>

vars == <<data_row, diff, prior, decoded, cpc, stdin, stdout, engine, proc,
          pc, cur, gen, nextId, budget, outcome>>

NoRequest == [EmptyRequest EXCEPT !.kind = "none"]

\* self.proc as ProtobufServer.__init__ leaves it: the engine runs and its
\* stdin is open.  buffered holds the frames written to the file object
\* proc.stdin that it has not passed on to the pipe yet.  sent, written and
\* read are no fields of the process:
\* they note the ids of the requests the client has written, of the
\* requests the engine has written a response for, and of the requests
\* whose responses the client has read, each in the order it happened.
ProcStarted ==
    [stdin_closed |-> FALSE, exited |-> FALSE, buffered |-> <<>>,
     sent |-> <<>>, written |-> <<>>, read |-> <<>>]

\* An argument left out of a call, and one that is given.
Omitted == [given |-> FALSE, val |-> <<>>]

OmittedNumber == [given |-> FALSE, val |-> 0]

Arg(v) == [given |-> TRUE, val |-> v]

\* What a call was given.  encoded lists the rows the call hands to
\* data_row_to_protobuf, in the order it does.
NoArgs == [to_sample |-> <<>>, conditioning_row |-> <<>>, encoded |-> <<>>]

NoCall == [op |-> "none", request |-> NoRequest, args |-> NoArgs]

NoGen ==
    [state |-> "none", at |-> "start", rows |-> <<>>, buffer_size |-> 0,
     idx |-> 0, buffered |-> 0, drain |-> 0, drained |-> 0,
     sent |-> 0, received |-> 0, ids |-> <<>>, yielded |-> <<>>,
     answers |-> <<>>, closed |-> FALSE]

NoOutcome == [kind |-> "none", op |-> "none", exc |-> "none", value |-> <<>>,
              id |-> 0, response |-> EmptyResponse, args |-> NoArgs]

\* The call returns value, read from response in answer to request id.
Return(op, value, id, response) ==
    [kind |-> "return", op |-> op, exc |-> "none", value |-> value,
     id |-> id, response |-> response, args |-> NoArgs]

\* The call raises exc after reading response in answer to request id.
Raise(op, exc, id, response) ==
    [kind |-> "raise", op |-> op, exc |-> exc, value |-> <<>>,
     id |-> id, response |-> response, args |-> NoArgs]

NotDecoded == [err |-> "none", row |-> <<>>]

CodecIdle ==
    /\ data_row = <<>>
    /\ diff = EmptyDiff
    /\ prior = EmptyDiff
    /\ decoded = NotDecoded
    /\ cpc = "off"

SessionFresh(requests) ==
    /\ stdin = <<>>
    /\ stdout = <<>>
    /\ engine = NoRequest
    /\ proc = ProcStarted
    /\ pc = "idle"
    /\ cur = NoCall
    /\ gen = NoGen
    /\ nextId = 0
    /\ budget = requests
    /\ outcome = NoOutcome

\* ------------------------------------------------------------------------
\* Transport: ProtobufServer.send and ProtobufServer.receive
\* ------------------------------------------------------------------------
\* The write and flush of send return once the pipe has taken the frame.
CanSend == Len(stdin) < PipeCap

\* receive returns once a whole frame can be read.
CanReceive == Len(stdout) > 0

Write_Twice(request) ==
    /\ stdin' = Append(Append(stdin, request), request)
    /\ proc' = [proc EXCEPT !.sent = Append(Append(@, request.id), request.id)]

Write_NoFlush(request) ==
    /\ stdin' = stdin
    /\ proc' = [proc EXCEPT !.sent = Append(@, request.id),
                            !.buffered = Append(@, request)]

\* protobuf_stream_write(request_string, self.proc.stdin) adds the frame to
\* what the file object holds, and self.proc.stdin.flush() passes all of it
\* on to the pipe.
Write(request) ==
    LET written == Append(proc.buffered, request)
    IN /\ stdin' = stdin \o written
       /\ proc' = [proc EXCEPT !.sent = Append(@, request.id),
                               !.buffered = <<>>]

Read_Keep ==
    /\ stdout' = stdout
    /\ proc' = [proc EXCEPT !.read = Append(@, Head(stdout).answers.id)]

\* protobuf_stream_read(self.proc.stdout): the oldest frame of the pipe.
Read ==
    /\ stdout' = Tail(stdout)
    /\ proc' = [proc EXCEPT !.read = Append(@, Head(stdout).answers.id)]

\* QueryServer.request(): a new request with a fresh id.
NewRequest(kind) == [EmptyRequest EXCEPT !.id = nextId + 1, !.kind = kind]

\* The request _send_score builds for a row.
ScoreRequest(row) ==
    [NewRequest("score") EXCEPT
        !.score.data = data_row_to_protobuf(row, EmptyDiff)]

\* ------------------------------------------------------------------------
\* The engine: it reads one request, answers it, and reads the next one
\* only after its answer has been written.
\* ------------------------------------------------------------------------
Scores == 1..2

\* What the engine may answer to request: an error, or a result of the
\* request's kind.
Failure(request) ==
    [EmptyResponse EXCEPT !.id = request.id, !.answers = request,
                          !.error = <<"error">>]

Success(request) ==
    [EmptyResponse EXCEPT !.id = request.id, !.answers = request]

EngineScoreResponses(request) ==
    {Failure(request)}
    \cup {[Success(request) EXCEPT !.score.score = s] : s \in Scores}

\* The rows the engine may sample: one slot per feature.
Features == 1..2

SampleValues == {None, PyInt(0), PyInt(1)}

SampleRows == [Features -> SampleValues]

\* A sample as the engine writes it: the Diff of a row, its mask NONE or
\* DENSE when no slot is observed.
EngineDiffs ==
    {data_row_to_protobuf(r, EmptyDiff) : r \in SampleRows}
    \cup {[EmptyDiff EXCEPT !.neg.observed.sparsity = NONE,
                            !.pos.observed.sparsity = DENSE,
                            !.pos.observed.dense = [i \in Features |-> FALSE]]}

EngineSampleResponses(request) ==
    {Failure(request)}
    \cup {[Success(request) EXCEPT !.sample.samples = samples] :
            samples \in UNION {[1..n -> EngineDiffs] : n \in 0..MaxSamples}}

\* One mean and one variance per pair of a row set and a column set.
EngineEntropyResponses(request) ==
    LET size == Len(request.entropy.row_sets) * Len(request.entropy.col_sets)
    IN {Failure(request),
        [Success(request) EXCEPT !.entropy.means = [k \in 1..size |-> k],
                                 !.entropy.variances = [k \in 1..size |-> 1]]}

\* The ids of the rows of the engine's dataset.
EngineRowIds == 1..2

Min(a, b) == IF a <= b THEN a ELSE b

Max(a, b) == IF a >= b THEN a ELSE b

\* One score difference per compared row: the rows of the request, or, when
\* it names none, rows of the dataset up to the row limit.
EngineDerivResponses(request) ==
    LET given == Len(request.score_derivative.score_data)
        n == IF given > 0 THEN given
             ELSE Min(request.score_derivative.row_limit,
                      Cardinality(EngineRowIds))
    IN {Failure(request)}
       \cup {[Success(request) EXCEPT
                 !.score_derivative.ids = [i \in 1..n |-> i],
                 !.score_derivative.score_diffs = [i \in 1..n |-> s]] :
               s \in Scores}

EngineResponses(request) ==
    CASE request.kind = "score" -> EngineScoreResponses(request)
      [] request.kind = "sample" -> EngineSampleResponses(request)
      [] request.kind = "entropy" -> EngineEntropyResponses(request)
      [] request.kind = "score_derivative" -> EngineDerivResponses(request)

\* The engine is between requests and a request frame is waiting.
EngineCanRead == engine = NoRequest /\ Len(stdin) > 0

\* The engine holds a request and its output pipe has room for the answer.
EngineCanWrite == engine # NoRequest /\ Len(stdout) < PipeCap

EngineRead ==
    /\ EngineCanRead
    /\ engine' = Head(stdin)
    /\ stdin' = Tail(stdin)
    /\ UNCHANGED <<stdout, proc>>
    /\ UNCHANGED clientVars
    /\ UNCHANGED codecVars

\* The engine answers the request it holds with one of the responses.
EngineWriteFrom(responses) ==
    /\ EngineCanWrite
    /\ \E response \in responses :
        stdout' = Append(stdout, response)
    /\ proc' = [proc EXCEPT !.written = Append(@, engine.id)]
    /\ engine' = NoRequest
    /\ UNCHANGED stdin
    /\ UNCHANGED clientVars
    /\ UNCHANGED codecVars

EngineWrite == EngineWriteFrom(EngineResponses(engine))

\* The engine has answered every request it was sent and finds its stdin
\* at its end.
EngineCanExit ==
    /\ ~proc.exited
    /\ proc.stdin_closed
    /\ engine = NoRequest
    /\ stdin = <<>>

\* The engine process terminates.
EngineExit ==
    /\ EngineCanExit
    /\ proc' = [proc EXCEPT !.exited = TRUE]
    /\ UNCHANGED <<stdin, stdout, engine>>
    /\ UNCHANGED clientVars
    /\ UNCHANGED codecVars

\* ------------------------------------------------------------------------
\* QueryServer.batch_score
\* ------------------------------------------------------------------------
ScoreRows == {<<None, None>>, <<PyInt(1), None>>}

BatchRows == UNION {[1..n -> ScoreRows] : n \in 0..MaxRows}

\* `if buffered < buffer_size:`
WindowOpen_Inclusive(buffered, buffer_size) == buffered <= buffer_size

WindowOpen_Always(buffered, buffer_size) == TRUE

WindowOpen(buffered, buffer_size) == buffered < buffer_size

\* `for _ in range(buffered):` the number of receives of the drain loop.
DrainCount_OneShort(buffered) == IF buffered > 0 THEN buffered - 1 ELSE 0

DrainCount_Half(buffered) == buffered \div 2

DrainCount(buffered) == buffered

\* Calling batch_score runs none of its body: it returns a generator.
BatchScoreCallFrom(RowLists, BufferSizes) ==
    /\ pc = "idle"
    /\ gen.state = "none"
    /\ \E rows \in RowLists, buffer_size \in BufferSizes :
        /\ Len(rows) <= budget
        /\ budget' = budget - Len(rows)
        /\ gen' = [NoGen EXCEPT !.state = "suspended", !.rows = rows,
                                !.buffer_size = buffer_size,
                                !.closed = proc.stdin_closed]
    /\ outcome' = NoOutcome
    /\ UNCHANGED <<pc, cur, nextId>>
    /\ UNCHANGED pipeVars
    /\ UNCHANGED codecVars

BatchScoreCall == BatchScoreCallFrom(BatchRows, 0..MaxBuffer)

\* The generator runs from the top of `for row in rows` to the point where
\* it next blocks: in send for the next row, or, the rows exhausted, in the
\* drain loop.
GenDrain(g) ==
    IF g.drained < g.drain
    THEN /\ gen' = [g EXCEPT !.state = "running", !.at = "drain"]
         /\ pc' = "receive"
         /\ cur' = [NoCall EXCEPT !.op = "batch_score"]
         /\ outcome' = NoOutcome
         /\ UNCHANGED nextId
    ELSE /\ gen' = [g EXCEPT !.state = "done", !.at = "end"]
         /\ pc' = "idle"
         /\ cur' = NoCall
         /\ outcome' = Raise("batch_score", "StopIteration", 0, EmptyResponse)
         /\ UNCHANGED nextId

GenLoop(g) ==
    IF g.idx < Len(g.rows)
    THEN /\ gen' = [g EXCEPT !.state = "running", !.at = "loop"]
         /\ pc' = "send"
         /\ cur' = [NoCall EXCEPT !.op = "batch_score",
                                   !.request = ScoreRequest(g.rows[g.idx + 1])]
         /\ nextId' = nextId + 1
         /\ outcome' = NoOutcome
    ELSE GenDrain([g EXCEPT !.drain = DrainCount(g.buffered)])

\* next(gen): the consumer asks the generator for its next value.
GenNext ==
    /\ pc = "idle"
    /\ gen.state = "suspended"
    /\ CASE gen.at = "start" -> GenLoop(gen)
         [] gen.at = "loop" -> GenLoop(gen)
         [] gen.at = "drain" ->
                GenDrain([gen EXCEPT !.drained = gen.drained + 1])
    /\ UNCHANGED budget
    /\ UNCHANGED pipeVars
    /\ UNCHANGED codecVars

\* _send_score(row) inside the loop, and the loop up to its next blocking
\* point.
GenSend ==
    /\ pc = "send"
    /\ cur.op = "batch_score"
    /\ IF proc.stdin_closed
       THEN /\ gen' = [gen EXCEPT !.state = "failed", !.at = "send"]
            /\ outcome' = Raise("batch_score", "ValueError", 0, EmptyResponse)
            /\ pc' = "idle"
            /\ cur' = NoCall
            /\ UNCHANGED <<stdin, proc, nextId>>
       ELSE /\ CanSend
            /\ Write(cur.request)
            /\ LET g == [gen EXCEPT !.idx = gen.idx + 1,
                                    !.sent = gen.sent + 1,
                                    !.ids = Append(gen.ids, cur.request.id)]
               IN IF WindowOpen(g.buffered, g.buffer_size)
                  THEN GenLoop([g EXCEPT !.buffered = g.buffered + 1])
                  ELSE /\ gen' = g
                       /\ pc' = "receive"
                       /\ cur' = [NoCall EXCEPT !.op = "batch_score"]
                       /\ UNCHANGED <<nextId, outcome>>
    /\ UNCHANGED <<stdout, engine, budget>>
    /\ UNCHANGED codecVars

\* `yield self._receive_score()` in the loop or in the drain loop.
GenReceive ==
    /\ pc = "receive"
    /\ cur.op = "batch_score"
    /\ CanReceive
    /\ Read
    /\ LET response == Head(stdout)
           id == gen.ids[gen.received + 1]
           g == [gen EXCEPT !.received = gen.received + 1]
       IN IF HasError(response)
          THEN /\ gen' = [g EXCEPT !.state = "failed", !.at = "end"]
               /\ outcome' = Raise("batch_score", "Exception", id, response)
          ELSE /\ gen' = [g EXCEPT !.state = "suspended",
                             !.yielded = Append(g.yielded,
                                                response.score.score),
                             !.answers = Append(g.answers, response.answers)]
               /\ outcome' = [Return("batch_score", response.score.score,
                                     id, response) EXCEPT !.kind = "yield"]
    /\ pc' = "idle"
    /\ cur' = NoCall
    /\ UNCHANGED <<stdin, engine, nextId, budget>>
    /\ UNCHANGED codecVars

BatchInit == CodecIdle /\ SessionFresh(MaxRows)

BatchNext ==
    \/ BatchScoreCall
    \/ GenNext
    \/ GenSend
    \/ GenReceive
    \/ EngineRead
    \/ EngineWrite

SpecBatch == BatchInit /\ [][BatchNext]_vars

\* ------------------------------------------------------------------------
\* Calls that send one request and read one response
\* ------------------------------------------------------------------------
\* The call is over: the client is idle again with the call's outcome.
FinishWith(result, args) ==
    /\ outcome' = [result EXCEPT !.args = args]
    /\ pc' = "idle"
    /\ cur' = NoCall

Finish(result) == FinishWith(result, cur.args)

\* protobuf_server.send(request) of score, sample and the other direct
\* calls; the call then blocks in receive.  A write to the closed stdin of
\* the process raises ValueError.
CallSend ==
    /\ pc = "send"
    /\ cur.op # "batch_score"
    /\ IF proc.stdin_closed
       THEN /\ Finish(Raise(cur.op, "ValueError", 0, EmptyResponse))
            /\ UNCHANGED <<stdin, proc>>
       ELSE /\ CanSend
            /\ Write(cur.request)
            /\ pc' = "receive"
            /\ UNCHANGED <<cur, outcome>>
    /\ UNCHANGED <<stdout, engine>>
    /\ UNCHANGED <<gen, nextId, budget>>
    /\ UNCHANGED codecVars

\* ------------------------------------------------------------------------
\* ProtobufServer.close
\* ------------------------------------------------------------------------
Close_WaitFirst ==
    /\ pc = "idle"
    /\ pc' = "wait"
    /\ cur' = [NoCall EXCEPT !.op = "close"]
    /\ outcome' = NoOutcome
    /\ UNCHANGED pipeVars
    /\ UNCHANGED <<gen, nextId, budget>>
    /\ UNCHANGED codecVars

\* self.proc.stdin.close(); the call then blocks in self.proc.wait().
Close ==
    /\ pc = "idle"
    /\ proc' = [proc EXCEPT !.stdin_closed = TRUE]
    /\ pc' = "wait"
    /\ cur' = [NoCall EXCEPT !.op = "close"]
    /\ outcome' = NoOutcome
    /\ UNCHANGED <<stdin, stdout, engine>>
    /\ UNCHANGED <<gen, nextId, budget>>
    /\ UNCHANGED codecVars

\* self.proc.wait() returns once the process has terminated.
CloseReturn ==
    /\ pc = "wait"
    /\ proc.exited
    /\ Finish(Return("close", <<>>, 0, EmptyResponse))
    /\ UNCHANGED pipeVars
    /\ UNCHANGED <<gen, nextId, budget>>
    /\ UNCHANGED codecVars

\* ------------------------------------------------------------------------
\* QueryServer.score
\* ------------------------------------------------------------------------
\* The rows given to score: rows of supported types, and one with a string.
CallRows == ScoreRows \cup {<<PyStr, None>>}

\* score up to its send: the request with its id, then the row encoded.
ScoreCall ==
    /\ pc = "idle"
    /\ budget >= 1
    /\ \E row \in CallRows :
        LET args == [NoArgs EXCEPT !.encoded = <<row>>]
        IN IF Encodable(row)
           THEN /\ cur' = [op |-> "score", request |-> ScoreRequest(row),
                           args |-> args]
                /\ pc' = "send"
                /\ outcome' = NoOutcome
           ELSE FinishWith(Raise("score", "KeyError", 0, EmptyResponse),
                           args)
    /\ nextId' = nextId + 1
    /\ budget' = budget - 1
    /\ UNCHANGED gen
    /\ UNCHANGED pipeVars
    /\ UNCHANGED codecVars

ScoreReceive ==
    /\ pc = "receive"
    /\ cur.op = "score"
    /\ CanReceive
    /\ Read
    /\ LET response == Head(stdout)
       IN IF HasError(response)
          THEN Finish(Raise("score", "Exception", cur.request.id, response))
          ELSE Finish(Return("score", response.score.score, cur.request.id,
                             response))
    /\ UNCHANGED <<stdin, engine, gen, nextId, budget>>
    /\ UNCHANGED codecVars

\* ------------------------------------------------------------------------
\* QueryServer.sample
\* ------------------------------------------------------------------------
sample_sample_count == 10

ToSamples == [Features -> BOOLEAN]

\* The arguments of a sample call: the conditioning row and the sample
\* count may be left out.
SampleArgs ==
    [to_sample : ToSamples,
     conditioning_row : {Omitted} \cup {Arg(r) : r \in SampleRows}
                          \cup {Arg(<<PyInt(1)>>), Arg(<<PyStr, None>>)},
     sample_count : {OmittedNumber, Arg(1), Arg(MaxSamples)}]

SessionSampleArgs ==
    [to_sample : {<<TRUE, FALSE>>},
     conditioning_row : {Omitted, Arg(<<None, PyInt(1)>>),
                         Arg(<<PyStr, None>>)},
     sample_count : {OmittedNumber}]

\* The request sample builds from to_sample, the conditioning row and the
\* sample count.
SampleRequest(to_sample, conditioning_row, sample_count) ==
    [NewRequest("sample") EXCEPT
        !.sample.data = data_row_to_protobuf(conditioning_row, EmptyDiff),
        !.sample.to_sample = [sparsity |-> DENSE, dense |-> to_sample,
                              sparse |-> <<>>],
        !.sample.sample_count = sample_count]

LengthsAgree_Always(to_sample, conditioning_row) == TRUE

\* `assert len(to_sample) == len(conditioning_row)`
LengthsAgree(to_sample, conditioning_row) ==
    Len(to_sample) = Len(conditioning_row)

\* sample up to its send: the defaults, the length assertion, the request
\* with its id, the conditioning row encoded.
SampleCall(args) ==
    /\ pc = "idle"
    /\ budget >= 1
    /\ LET to_sample == args.to_sample
           sample_count == IF args.sample_count.given
                           THEN args.sample_count.val
                           ELSE sample_sample_count
           conditioning_row == IF args.conditioning_row.given
                               THEN args.conditioning_row.val
                               ELSE [i \in 1..Len(to_sample) |-> None]
           given == [to_sample |-> to_sample,
                     conditioning_row |-> conditioning_row,
                     omitted |-> ~args.conditioning_row.given,
                     encoded |-> <<>>]
           encoding == [given EXCEPT !.encoded = <<conditioning_row>>]
       IN IF ~LengthsAgree(to_sample, conditioning_row)
          THEN /\ FinishWith(Raise("sample", "AssertionError", 0,
                                   EmptyResponse), given)
               /\ UNCHANGED <<nextId, budget>>
          ELSE IF ~Encodable(conditioning_row)
          THEN /\ FinishWith(Raise("sample", "KeyError", 0, EmptyResponse),
                             encoding)
               /\ nextId' = nextId + 1
               /\ budget' = budget - 1
          ELSE /\ cur' = [op |-> "sample",
                          request |-> SampleRequest(to_sample,
                                                    conditioning_row,
                                                    sample_count),
                          args |-> encoding]
               /\ pc' = "send"
               /\ nextId' = nextId + 1
               /\ budget' = budget - 1
               /\ outcome' = NoOutcome
    /\ UNCHANGED gen
    /\ UNCHANGED pipeVars
    /\ UNCHANGED codecVars

\* The slots of a decoded sample at which the loop over its values fails:
\* an unobserved slot that to_sample marks, or that to_sample does not have.
BadSlots(data_out, to_sample) ==
    {i \in 1..Len(data_out) :
        data_out[i] = None /\ (i > Len(to_sample) \/ to_sample[i])}

Least(S) == CHOOSE i \in S : \A j \in S : i <= j

\* One sample of the response: decoded, then every unobserved slot filled
\* from the conditioning row.
Reconcile(sample, to_sample, conditioning_row) ==
    LET out == protobuf_to_data_row(sample)
        data_out == out.row
        bad == BadSlots(data_out, to_sample)
    IN IF out.err # "ok" THEN out
       ELSE IF bad # {}
       THEN [err |-> IF Least(bad) > Len(to_sample) THEN "IndexError"
                     ELSE "AssertionError",
             row |-> <<>>]
       ELSE [err |-> "ok",
             row |-> [i \in 1..Len(data_out) |->
                        IF data_out[i] = None THEN conditioning_row[i]
                        ELSE data_out[i]]]

SampleResult_DropLast(id, response, to_sample, conditioning_row) ==
    LET samples == response.sample.samples
        rows == [k \in 1..Len(samples) |->
                    Reconcile(samples[k], to_sample, conditioning_row)]
        failed == {k \in 1..Len(samples) : rows[k].err # "ok"}
    IN IF HasError(response)
       THEN Raise("sample", "Exception", id, response)
       ELSE IF failed # {}
       THEN Raise("sample", rows[Least(failed)].err, id, response)
       ELSE Return("sample", [k \in 1..(Len(samples) - 1) |-> rows[k].row],
                   id, response)

\* sample from its receive to its return.
SampleResult(id, response, to_sample, conditioning_row) ==
    LET samples == response.sample.samples
        rows == [k \in 1..Len(samples) |->
                    Reconcile(samples[k], to_sample, conditioning_row)]
        failed == {k \in 1..Len(samples) : rows[k].err # "ok"}
    IN IF HasError(response)
       THEN Raise("sample", "Exception", id, response)
       ELSE IF failed # {}
       THEN Raise("sample", rows[Least(failed)].err, id, response)
       ELSE Return("sample", [k \in 1..Len(samples) |-> rows[k].row], id,
                   response)

SampleReceive ==
    /\ pc = "receive"
    /\ cur.op = "sample"
    /\ CanReceive
    /\ Read
    /\ Finish(SampleResult(cur.request.id, Head(stdout), cur.args.to_sample,
                           cur.args.conditioning_row))
    /\ UNCHANGED <<stdin, engine, gen, nextId, budget>>
    /\ UNCHANGED codecVars

SampleInit == CodecIdle /\ SessionFresh(1)

SampleNext ==
    \/ \E args \in SampleArgs : SampleCall(args)
    \/ CallSend
    \/ SampleReceive
    \/ EngineRead
    \/ EngineWrite

SpecSample == SampleInit /\ [][SampleNext]_vars

\* ------------------------------------------------------------------------
\* QueryServer.score_derivative
\* ------------------------------------------------------------------------
similar_row_limit == 1000

\* dst.MergeFrom(src) on a ProductValue: a set scalar overwrites, repeated
\* fields are appended.
MergeProductValue(dst, src) ==
    [observed |->
        [sparsity |-> IF src.observed.sparsity = "unset"
                      THEN dst.observed.sparsity
                      ELSE src.observed.sparsity,
         dense |-> dst.observed.dense \o src.observed.dense,
         sparse |-> dst.observed.sparse \o src.observed.sparse],
     booleans |-> dst.booleans \o src.booleans,
     counts |-> dst.counts \o src.counts,
     reals |-> dst.reals \o src.reals]

MergeFrom(dst, src) ==
    [pos |-> MergeProductValue(dst.pos, src.pos),
     neg |-> MergeProductValue(dst.neg, src.neg)]

\* row.diff after the first k score rows have been encoded into it.
RECURSIVE RowDiffAfter(_, _)
RowDiffAfter(score_rows, k) ==
    IF k = 0 THEN EmptyDiff
    ELSE data_row_to_protobuf(score_rows[k], RowDiffAfter(score_rows, k - 1))

DerivRequest_SharedDiff(update_row, score_rows, row_limit) ==
    [NewRequest("score_derivative") EXCEPT
        !.score_derivative.score_data =
            [k \in 1..Len(score_rows) |->
                MergeFrom(EmptyDiff,
                          RowDiffAfter(score_rows, Len(score_rows)))],
        !.score_derivative.row_limit = row_limit,
        !.score_derivative.update_data =
            MergeFrom(EmptyDiff,
                      data_row_to_protobuf(
                          update_row,
                          RowDiffAfter(score_rows, Len(score_rows))))]

\* The request score_derivative builds: row.diff is encoded into for each
\* score row and for the update row, and merged into a new message each
\* time.
DerivRequest(update_row, score_rows, row_limit) ==
    [NewRequest("score_derivative") EXCEPT
        !.score_derivative.score_data =
            [k \in 1..Len(score_rows) |->
                MergeFrom(EmptyDiff, RowDiffAfter(score_rows, k))],
        !.score_derivative.row_limit = row_limit,
        !.score_derivative.update_data =
            MergeFrom(EmptyDiff,
                      data_row_to_protobuf(
                          update_row,
                          RowDiffAfter(score_rows, Len(score_rows))))]

DerivArgs ==
    [update_row : {<<PyInt(1), None>>, <<PyStr, None>>},
     score_rows : {Omitted, Arg(<<<<PyInt(1), None>>, <<None, PyInt(0)>>>>)},
     row_limit : {OmittedNumber, Arg(1)}]

DerivCall ==
    /\ pc = "idle"
    /\ budget >= 1
    /\ \E args \in DerivArgs :
        LET row_limit == IF args.row_limit.given THEN args.row_limit.val
                         ELSE similar_row_limit
            score_rows == IF args.score_rows.given THEN args.score_rows.val
                          ELSE <<>>
            given == [to_sample |-> <<>>, conditioning_row |-> <<>>,
                      encoded |-> score_rows \o <<args.update_row>>,
                      update_row |-> args.update_row,
                      score_rows |-> args.score_rows,
                      row_limit |-> args.row_limit]
        IN IF \A k \in 1..Len(given.encoded) : Encodable(given.encoded[k])
           THEN /\ cur' = [op |-> "score_derivative",
                           request |-> DerivRequest(args.update_row,
                                                    score_rows, row_limit),
                           args |-> given]
                /\ pc' = "send"
                /\ outcome' = NoOutcome
           ELSE FinishWith(Raise("score_derivative", "KeyError", 0,
                                 EmptyResponse), given)
    /\ nextId' = nextId + 1
    /\ budget' = budget - 1
    /\ UNCHANGED gen
    /\ UNCHANGED pipeVars
    /\ UNCHANGED codecVars

Zip_Swapped(a, b) == [i \in 1..Min(Len(a), Len(b)) |-> <<b[i], a[i]>>]

\* zip(ids, score_diffs): pairs up to the end of the shorter list.
Zip(a, b) == [i \in 1..Min(Len(a), Len(b)) |-> <<a[i], b[i]>>]

DerivReceive ==
    /\ pc = "receive"
    /\ cur.op = "score_derivative"
    /\ CanReceive
    /\ Read
    /\ LET response == Head(stdout)
       IN IF HasError(response)
          THEN Finish(Raise("score_derivative", "Exception", cur.request.id,
                            response))
          ELSE Finish(Return("score_derivative",
                             Zip(response.score_derivative.ids,
                                 response.score_derivative.score_diffs),
                             cur.request.id, response))
    /\ UNCHANGED <<stdin, engine, gen, nextId, budget>>
    /\ UNCHANGED codecVars

\* ------------------------------------------------------------------------
\* QueryServer.entropy and QueryServer._entropy
\* ------------------------------------------------------------------------
entropy_sample_count == 1000

mutual_information_sample_count == 1000

tile_size_default == 500

\* Estimate(mean, variance)
Estimate(mean, variance) == [mean |-> mean, variance |-> variance]

TileEdge_NoDivide(tile_size, nr, nc) == tile_size * tile_size

\* tile_size * tile_size // min_size
TileEdge(tile_size, nr, nc) ==
    (tile_size * tile_size) \div Max(1, Min(tile_size, Min(nr, nc)))

Slice_OneMore(seq, i, n) == SubSeq(seq, i + 1, Min(i + n + 1, Len(seq)))

\* seq[i: i + n], i counted from 0.
Slice(seq, i, n) == SubSeq(seq, i + 1, Min(i + n, Len(seq)))

\* frozenset(feature_set): the elements of a list of features, each once.
frozenset(feature_set) == {feature_set[i] : i \in 1..Len(feature_set)}

Dedupe_NoEmpty(feature_sets) ==
    {frozenset(feature_sets[i]) : i \in 1..Len(feature_sets)}

\* set(map(frozenset, feature_sets)) | set([frozenset()])
Dedupe(feature_sets) ==
    {frozenset(feature_sets[i]) : i \in 1..Len(feature_sets)} \cup {{}}

\* list(S): the elements of a set once each, in an order the caller does
\* not control.
Orderings(S) ==
    {seq \in [1..Cardinality(S) -> S] :
        \A i, j \in 1..Cardinality(S) : seq[i] = seq[j] => i = j}

\* sorted(feature_set)
RECURSIVE Sorted(_)
Sorted(S) ==
    IF S = {} THEN <<>>
    ELSE LET m == CHOOSE x \in S : \A y \in S : x <= y
         IN <<m>> \o Sorted(S \ {m})

\* The message feature_set_to_protobuf adds for a feature set.
feature_set_to_protobuf(feature_set) ==
    [sparsity |-> SPARSE, dense |-> <<>>, sparse |-> Sorted(feature_set)]

\* The request _entropy builds for the row sets and column sets in the
\* order list() gave them.
EntropyRequest(row_sets, col_sets, conditioning_row, sample_count) ==
    [NewRequest("entropy") EXCEPT
        !.entropy.conditional =
            IF conditioning_row.given
            THEN data_row_to_protobuf(conditioning_row.val, EmptyDiff)
            ELSE none_to_protobuf(EmptyDiff),
        !.entropy.row_sets =
            [i \in 1..Len(row_sets) |-> feature_set_to_protobuf(row_sets[i])],
        !.entropy.col_sets =
            [i \in 1..Len(col_sets) |-> feature_set_to_protobuf(col_sets[i])],
        !.entropy.sample_count = sample_count]

SizeMatches_AtLeast(means, variances, size) ==
    Len(means) >= size /\ Len(variances) >= size

\* `assert len(means) == size` and `assert len(variances) == size`
SizeMatches(means, variances, size) ==
    Len(means) = size /\ Len(variances) = size

EntropyDict_FirstWins(row_sets, col_sets, means, variances) ==
    LET pairs == (1..Len(row_sets)) \X (1..Len(col_sets))
        index(p) == (p[1] - 1) * Len(col_sets) + p[2]
        key(p) == row_sets[p[1]] \cup col_sets[p[2]]
        first(k) == CHOOSE p \in pairs :
                       /\ key(p) = k
                       /\ \A q \in pairs : key(q) = k => index(p) <= index(q)
    IN [k \in {key(p) : p \in pairs} |->
          Estimate(means[index(first(k))], variances[index(first(k))])]

\* The dict _entropy returns: a later pair of a row set and a column set
\* with the same union replaces an earlier one.
EntropyDict(row_sets, col_sets, means, variances) ==
    LET pairs == (1..Len(row_sets)) \X (1..Len(col_sets))
        index(p) == (p[1] - 1) * Len(col_sets) + p[2]
        key(p) == row_sets[p[1]] \cup col_sets[p[2]]
        last(k) == CHOOSE p \in pairs :
                      /\ key(p) = k
                      /\ \A q \in pairs : key(q) = k => index(q) <= index(p)
    IN [k \in {key(p) : p \in pairs} |->
          Estimate(means[index(last(k))], variances[index(last(k))])]

Update_Replace(result, new) == new

\* result.update(new)
Update(result, new) ==
    [k \in DOMAIN result \cup DOMAIN new |->
        IF k \in DOMAIN new THEN new[k] ELSE result[k]]

\* The feature sets a caller passes: lists of features, in either order.
FeatureLists == {<<>>, <<1>>, <<2>>, <<1, 2>>, <<2, 1>>}

EntropyLists == UNION {[1..n -> FeatureLists] : n \in 0..MaxSets}

BadRow == <<PyStr, None>>

EntropyArgs ==
    [row_sets : EntropyLists,
     col_sets : {<<>>, <<<<1>>>>, <<<<2>>, <<1>>>>},
     conditioning_row : {Omitted},
     sample_count : {OmittedNumber},
     tile_size : {OmittedNumber, Arg(0), Arg(1), Arg(2)}]
    \cup
    [row_sets : {<<>>, <<<<1>>>>},
     col_sets : {<<<<2>>>>},
     conditioning_row : {Arg(<<PyInt(1), None>>), Arg(BadRow)},
     sample_count : {Arg(MaxSamples)},
     tile_size : {OmittedNumber}]

\* The number of steps of range(0, n, step).
RangeLen(n, step) == (n + step - 1) \div step

\* range(0, n, step)
Range(n, step) == {k * step : k \in 0..(RangeLen(n, step) - 1)}

\* The keys of the mapping entropy(row_sets, col_sets, tile_size=tile_size)
\* returns when every response has the size its request asks for: the
\* unions _entropy builds for each pair of a row tile and a column tile.
EntropyKeys(row_sets, col_sets, tile_size) ==
    LET tile == TileEdge(tile_size, Len(row_sets), Len(col_sets))
    IN UNION {{row_set \cup col_set :
                 row_set \in Dedupe(Slice(row_sets, i, tile)),
                 col_set \in Dedupe(Slice(col_sets, j, tile))} :
              i \in Range(Len(row_sets), tile),
              j \in Range(Len(col_sets), tile)}

\* mutual_information from the lookups on: the estimate, or KeyError when
\* entropys has no entry for one of the three sets.
mutual_information_VarianceMinus(feature_set1, feature_set2, entropys) ==
    LET feature_union == feature_set1 \cup feature_set2
    IN IF {feature_set1, feature_set2, feature_union} \subseteq DOMAIN entropys
       THEN [err |-> "ok",
             value |-> Estimate(entropys[feature_set1].mean
                                  + entropys[feature_set2].mean
                                  - entropys[feature_union].mean,
                                entropys[feature_set1].variance
                                  + entropys[feature_set2].variance
                                  - entropys[feature_union].variance)]
       ELSE [err |-> "KeyError", value |-> <<>>]

mutual_information(feature_set1, feature_set2, entropys) ==
    LET feature_union == feature_set1 \cup feature_set2
    IN IF {feature_set1, feature_set2, feature_union} \subseteq DOMAIN entropys
       THEN [err |-> "ok",
             value |-> Estimate(entropys[feature_set1].mean
                                  + entropys[feature_set2].mean
                                  - entropys[feature_union].mean,
                                entropys[feature_set1].variance
                                  + entropys[feature_set2].variance
                                  + entropys[feature_union].variance)]
       ELSE [err |-> "KeyError", value |-> <<>>]

\* The end of a call of entropy with result: entropy returns it, and
\* mutual_information, when it made the call, goes on to its lookups.
EntropyDone(e, result, id, response) ==
    IF e.op = "entropy"
    THEN FinishWith(Return("entropy", result, id, response), e)
    ELSE LET mi == mutual_information(e.feature_set1, e.feature_set2, result)
         IN IF mi.err = "ok"
            THEN FinishWith(Return(e.op, mi.value, id, response), e)
            ELSE FinishWith(Raise(e.op, mi.err, id, response), e)

\* entropy is at the tile at offsets i, j: _entropy up to its send.  tiles
\* notes the offsets of the tiles entropy has come to, in order.
EntropyTile(e, i, j) ==
    \E rl \in Orderings(Dedupe(Slice(e.row_sets, i, e.tile))),
       cl \in Orderings(Dedupe(Slice(e.col_sets, j, e.tile))) :
        /\ cur' = [op |-> e.op,
                   request |-> EntropyRequest(rl, cl, e.conditioning_row,
                                              e.sample_count),
                   args |-> [e EXCEPT !.i = i, !.j = j, !.rl = rl, !.cl = cl,
                                      !.tiles = Append(@, <<i, j>>)]]
        /\ pc' = "send"
        /\ nextId' = nextId + 1

\* entropy(row_sets, col_sets, conditioning_row, sample_count, tile_size)
\* up to the send of its first tile, or to its end when it has no tile or
\* fails before.  given holds what the caller passed.
EntropyStart(given, row_sets, col_sets, conditioning_row, sample_count, tile_size) ==
    LET nr == Len(row_sets)
        nc == Len(col_sets)
        tile == TileEdge(tile_size, nr, nc)
        e == [op |-> given.op,
              lists |-> given.lists,
              feature_set1 |-> given.feature_set1,
              feature_set2 |-> given.feature_set2,
              entropys |-> given.entropys,
              row_sets |-> row_sets, col_sets |-> col_sets,
              conditioning_row |-> conditioning_row,
              sample_count |-> sample_count,
              tile_size |-> tile_size, tile |-> tile,
              i |-> 0, j |-> 0, rl |-> <<>>, cl |-> <<>>, tiles |-> <<>>,
              result |-> <<>>, encoded |-> <<>>]
        encoding == IF conditioning_row.given
                    THEN [e EXCEPT !.encoded = <<conditioning_row.val>>]
                    ELSE e
    IN IF tile <= 0
       THEN /\ FinishWith(Raise(e.op, "AssertionError", 0, EmptyResponse), e)
            /\ UNCHANGED <<nextId, budget>>
       ELSE IF nr = 0 \/ nc = 0
       THEN /\ EntropyDone(e, <<>>, 0, EmptyResponse)
            /\ UNCHANGED <<nextId, budget>>
       ELSE IF conditioning_row.given /\ ~Encodable(conditioning_row.val)
       THEN /\ budget >= 1
            /\ budget' = budget - 1
            /\ nextId' = nextId + 1
            /\ FinishWith(Raise(e.op, "KeyError", 0, EmptyResponse), encoding)
       ELSE /\ RangeLen(nr, tile) * RangeLen(nc, tile) <= budget
            /\ budget' = budget - RangeLen(nr, tile) * RangeLen(nc, tile)
            /\ EntropyTile(encoding, 0, 0)
            /\ outcome' = NoOutcome

\* What a call of entropy notes of its caller: the call made, and for
\* mutual_information the two lists of features it was given, the sets it
\* made of them and the entropys argument.
EntropyGiven ==
    [op |-> "entropy", lists |-> <<>>, feature_set1 |-> {},
     feature_set2 |-> {}, entropys |-> Omitted]

EntropyCallFrom(Args) ==
    /\ pc = "idle"
    /\ \E args \in Args :
        EntropyStart(EntropyGiven, args.row_sets, args.col_sets,
                     args.conditioning_row,
                     IF args.sample_count.given THEN args.sample_count.val
                     ELSE entropy_sample_count,
                     IF args.tile_size.given THEN args.tile_size.val
                     ELSE tile_size_default)
    /\ UNCHANGED gen
    /\ UNCHANGED pipeVars
    /\ UNCHANGED codecVars

EntropyCall == EntropyCallFrom(EntropyArgs)

\* _entropy from its receive to its return, and entropy up to the send of
\* the next tile or to its own return.
EntropyReceive ==
    /\ pc = "receive"
    /\ cur.op \in {"entropy", "mutual_information"}
    /\ CanReceive
    /\ Read
    /\ LET response == Head(stdout)
           e == cur.args
           means == response.entropy.means
           variances == response.entropy.variances
           size == Len(e.rl) * Len(e.cl)
           result == Update(e.result,
                            EntropyDict(e.rl, e.cl, means, variances))
           j == e.j + e.tile
           i == e.i + e.tile
       IN IF HasError(response)
          THEN /\ Finish(Raise(e.op, "Exception", cur.request.id, response))
               /\ UNCHANGED nextId
          ELSE IF ~SizeMatches(means, variances, size)
          THEN /\ Finish(Raise(e.op, "AssertionError", cur.request.id,
                               response))
               /\ UNCHANGED nextId
          ELSE IF j < Len(e.col_sets)
          THEN /\ EntropyTile([e EXCEPT !.result = result], e.i, j)
               /\ UNCHANGED outcome
          ELSE IF i < Len(e.row_sets)
          THEN /\ EntropyTile([e EXCEPT !.result = result], i, 0)
               /\ UNCHANGED outcome
          ELSE /\ EntropyDone([e EXCEPT !.result = result], result,
                              cur.request.id, response)
               /\ UNCHANGED nextId
    /\ UNCHANGED <<stdin, engine, gen, budget>>
    /\ UNCHANGED codecVars

\* ------------------------------------------------------------------------
\* QueryServer.mutual_information
\* ------------------------------------------------------------------------
\* The estimates a caller's entropys mapping holds.
Estimates == {Estimate(mean, variance) : mean \in 0..MaxMean,
                                         variance \in 0..MaxVariance}

\* The entropys mappings a caller passes: one estimate per set of features,
\* or per set of one feature only.
EntropysGiven ==
    [SUBSET Features -> Estimates] \cup [{{1}, {2}} -> Estimates]

MutualInformationArgs ==
    [feature_set1 : FeatureLists, feature_set2 : FeatureLists,
     entropys : {Arg(entropys) : entropys \in EntropysGiven},
     conditioning_row : {Omitted}, sample_count : {OmittedNumber}]
    \cup
    [feature_set1 : FeatureLists, feature_set2 : FeatureLists,
     entropys : {Omitted},
     conditioning_row : {Omitted, Arg(BadRow)},
     sample_count : {OmittedNumber, Arg(MaxSamples)}]

IsNone_Always(arg) == TRUE

\* `if entropys is None:`
IsNone(arg) == ~arg.given

\* mutual_information: with entropys given it goes to its lookups, without
\* it calls entropy([feature_set1], [feature_set2], conditioning_row,
\* sample_count) first.
MutualInformationCallFrom(Args) ==
    /\ pc = "idle"
    /\ \E args \in Args :
        LET feature_set1 == frozenset(args.feature_set1)
            feature_set2 == frozenset(args.feature_set2)
            sample_count == IF args.sample_count.given
                            THEN args.sample_count.val
                            ELSE mutual_information_sample_count
            given == [op |-> "mutual_information",
                      lists |-> <<args.feature_set1, args.feature_set2>>,
                      feature_set1 |-> feature_set1,
                      feature_set2 |-> feature_set2,
                      entropys |-> args.entropys]
            mi == mutual_information(feature_set1, feature_set2,
                                     args.entropys.val)
        IN IF ~IsNone(args.entropys)
           THEN /\ IF mi.err = "ok"
                   THEN FinishWith(Return("mutual_information", mi.value, 0,
                                          EmptyResponse), given)
                   ELSE FinishWith(Raise("mutual_information", mi.err, 0,
                                         EmptyResponse), given)
                /\ UNCHANGED <<nextId, budget>>
           ELSE EntropyStart(given, <<Sorted(feature_set1)>>,
                             <<Sorted(feature_set2)>>,
                             args.conditioning_row, sample_count,
                             tile_size_default)
    /\ UNCHANGED gen
    /\ UNCHANGED pipeVars
    /\ UNCHANGED codecVars

MutualInformationCall == MutualInformationCallFrom(MutualInformationArgs)

\* ------------------------------------------------------------------------
\* A session: one client making calls one after another, each run to its
\* end, and advancing a batch_score generator between them.
\* ------------------------------------------------------------------------
SessionBatchRows == UNION {[1..n -> ScoreRows] : n \in 0..2}

SessionBatchScoreCall == BatchScoreCallFrom(SessionBatchRows, 0..1)

\* In a session the engine's samples are few.
SessionSampleResponses(request) ==
    {Failure(request),
     [Success(request) EXCEPT
        !.sample.samples =
            <<data_row_to_protobuf(<<PyInt(0), None>>, EmptyDiff)>>]}

\* An entropy response with one mean more than the request asks for.
SessionEntropyLongResponse(request) ==
    LET size == Len(request.entropy.row_sets) * Len(request.entropy.col_sets)
    IN [Success(request) EXCEPT
           !.entropy.means = [k \in 1..(size + 1) |-> k],
           !.entropy.variances = [k \in 1..size |-> 1]]

\* In a session the engine's answers are few: an error, or one result, or
\* for an entropy request lists of another length than it asks for.
SessionEngineResponses(request) ==
    IF request.kind = "sample" THEN SessionSampleResponses(request)
    ELSE {Failure(request),
          CHOOSE response \in EngineResponses(request) :
              response.error = <<>>}
         \cup IF request.kind = "entropy"
              THEN {SessionEntropyLongResponse(request)}
              ELSE {}

SessionEngineWrite == EngineWriteFrom(SessionEngineResponses(engine))

SessionEntropyArgs ==
    [row_sets : {<<<<1>>>>}, col_sets : {<<>>, <<<<1>>, <<2>>>>},
     conditioning_row : {Omitted, Arg(BadRow)},
     sample_count : {OmittedNumber},
     tile_size : {OmittedNumber, Arg(1)}]

SessionEntropyCall == EntropyCallFrom(SessionEntropyArgs)

SessionMutualInformationArgs ==
    [feature_set1 : {<<1>>}, feature_set2 : {<<2, 1>>},
     entropys : {Omitted,
                 Arg([S \in SUBSET Features |-> Estimate(1, 1)])},
     conditioning_row : {Omitted}, sample_count : {OmittedNumber}]

SessionMutualInformationCall ==
    MutualInformationCallFrom(SessionMutualInformationArgs)

Init == CodecIdle /\ SessionFresh(MaxRequests)

Next ==
    \/ SessionBatchScoreCall
    \/ GenNext
    \/ GenSend
    \/ GenReceive
    \/ ScoreCall
    \/ ScoreReceive
    \/ \E args \in SessionSampleArgs : SampleCall(args)
    \/ SampleReceive
    \/ DerivCall
    \/ DerivReceive
    \/ SessionEntropyCall
    \/ SessionMutualInformationCall
    \/ EntropyReceive
    \/ CallSend
    \/ Close
    \/ CloseReturn
    \/ EngineRead
    \/ SessionEngineWrite
    \/ EngineExit

Spec == Init /\ [][Next]_vars

\* ------------------------------------------------------------------------
\* A session used for one call of entropy, and one used for one call of
\* mutual_information.  The engine may answer with lists of another length
\* than the request asks.
\* ------------------------------------------------------------------------
EngineEntropyBadResponses(request) ==
    LET size == Len(request.entropy.row_sets) * Len(request.entropy.col_sets)
    IN {[Success(request) EXCEPT
            !.entropy.means = [k \in 1..(size + dm) |-> k],
            !.entropy.variances = [k \in 1..(size + dv) |-> 1]] :
          dm \in {-1, 0, 1}, dv \in {-1, 0, 1}}

EntropyEngineWrite ==
    EngineWriteFrom(EngineEntropyResponses(engine)
                      \cup EngineEntropyBadResponses(engine))

MaxTiles == 6

EntropyInit == CodecIdle /\ SessionFresh(MaxTiles)

EntropyNext ==
    \/ nextId = 0 /\ outcome = NoOutcome /\ EntropyCall
    \/ CallSend
    \/ EntropyReceive
    \/ EngineRead
    \/ EntropyEngineWrite

SpecEntropy == EntropyInit /\ [][EntropyNext]_vars

MutualInformationInit == CodecIdle /\ SessionFresh(1)

MutualInformationNext ==
    \/ nextId = 0 /\ outcome = NoOutcome /\ MutualInformationCall
    \/ CallSend
    \/ EntropyReceive
    \/ EngineRead
    \/ EntropyEngineWrite

SpecMutualInformation ==
    MutualInformationInit /\ [][MutualInformationNext]_vars

\* ------------------------------------------------------------------------
\* A session used for one call of entropy over lists of up to MaxListLen
\* feature sets, with a tile size of up to MaxTileSize.
\* ------------------------------------------------------------------------
MaxListLen == 5

MaxTileSize == 3

TilingArgs ==
    [row_sets : {[k \in 1..n |-> <<1>>] : n \in 0..MaxListLen},
     col_sets : {[k \in 1..n |-> <<2>>] : n \in 0..MaxListLen},
     conditioning_row : {Omitted},
     sample_count : {OmittedNumber},
     tile_size : {Arg(t) : t \in 1..MaxTileSize}]

TilingInit == CodecIdle /\ SessionFresh(MaxListLen * MaxListLen)

TilingNext ==
    \/ nextId = 0 /\ outcome = NoOutcome /\ EntropyCallFrom(TilingArgs)
    \/ CallSend
    \/ EntropyReceive
    \/ EngineRead
    \/ EngineWrite

SpecTiling == TilingInit /\ [][TilingNext]_vars

\* ------------------------------------------------------------------------
\* A session that scores a batch and is closed, at the end or part-way.
\* ------------------------------------------------------------------------
CloseInit == CodecIdle /\ SessionFresh(MaxRows)

CloseNext ==
    \/ BatchScoreCall
    \/ GenNext
    \/ GenSend
    \/ GenReceive
    \/ Close
    \/ CloseReturn
    \/ EngineRead
    \/ EngineWrite
    \/ EngineExit

SpecClose == CloseInit /\ [][CloseNext]_vars

\* ------------------------------------------------------------------------
\* The codec on its own: a row is encoded into a Diff, the Diff is decoded.
\* ------------------------------------------------------------------------
CodecInit ==
    /\ data_row \in Rows
    /\ diff \in PriorDiffs
    /\ prior = diff
    /\ decoded = NotDecoded
    /\ cpc = "start"
    /\ SessionFresh(0)

\* data_row_to_protobuf(data_row, diff) returns, or raises KeyError and
\* leaves the Diff as far as it got.
Encode ==
    /\ cpc = "start"
    /\ diff' = data_row_to_protobuf(data_row, diff)
    /\ cpc' = IF Encodable(data_row) THEN "encoded" ELSE "KeyError"
    /\ UNCHANGED <<data_row, prior, decoded>>
    /\ UNCHANGED sessionVars

Decode ==
    /\ cpc = "encoded"
    /\ decoded' = protobuf_to_data_row(diff)
    /\ cpc' = "decoded"
    /\ UNCHANGED <<data_row, diff, prior>>
    /\ UNCHANGED sessionVars

CodecNext == Encode \/ Decode

SpecCodec == CodecInit /\ [][CodecNext]_vars

\* ------------------------------------------------------------------------
\* The decoder on its own: a Diff as it may arrive on the wire is decoded.
\* Its lists need not hold one value per slot the mask marks.
\* ------------------------------------------------------------------------
WireMasks == UNION {[1..n -> BOOLEAN] : n \in 0..MaxSlots}

WireLists(S) == UNION {[1..n -> S] : n \in 0..MaxValues}

WireDiffs ==
    {[pos |-> [observed |-> [sparsity |-> DENSE, dense |-> mask,
                             sparse |-> <<>>],
               booleans |-> booleans, counts |-> counts, reals |-> reals],
      neg |-> [EmptyProductValue EXCEPT !.observed.sparsity = sparsity]] :
        mask \in WireMasks,
        booleans \in WireLists(0..1),
        counts \in WireLists(0..MaxCount),
        reals \in WireLists(0..MaxReal),
        sparsity \in {NONE, DENSE}}

DecodeInit ==
    /\ data_row = <<>>
    /\ diff \in WireDiffs
    /\ prior = diff
    /\ decoded = NotDecoded
    /\ cpc = "encoded"
    /\ SessionFresh(0)

SpecDecode == DecodeInit /\ [][Decode]_vars

\* ------------------------------------------------------------------------
\* The decoder given a Diff whose positive mask is SPARSE: the mask lists
\* the indices of the observed slots, counted from 0, in rising order, and
\* its dense list is empty.
\* ------------------------------------------------------------------------
SparseMasks ==
    {Sorted(S) : S \in SUBSET (0..(MaxSlots - 1))}

WireSparseDiffs ==
    {[pos |-> [observed |-> [sparsity |-> SPARSE, dense |-> <<>>,
                             sparse |-> mask],
               booleans |-> booleans, counts |-> counts, reals |-> reals],
      neg |-> [EmptyProductValue EXCEPT !.observed.sparsity = NONE]] :
        mask \in SparseMasks,
        booleans \in WireLists(0..1),
        counts \in WireLists(0..MaxCount),
        reals \in WireLists(0..MaxReal)}

DecodeSparseInit ==
    /\ data_row = <<>>
    /\ diff \in WireSparseDiffs
    /\ prior = diff
    /\ decoded = NotDecoded
    /\ cpc = "encoded"
    /\ SessionFresh(0)

SpecDecodeSparse == DecodeSparseInit /\ [][Decode]_vars

\* ------------------------------------------------------------------------
\* Properties of the codec
\* ------------------------------------------------------------------------
AllUnobserved(row) == \A i \in 1..Len(row) : row[i] = None

TypeRank(x) ==
    CASE x.t = "bool" -> 0
      [] x.t = "int" -> 1
      [] x.t = "float" -> 2
      [] OTHER -> 3

\* The observed slots hold booleans first, then integers, then reals.
TypeOrdered(row) ==
    \A i, j \in 1..Len(row) :
        (i < j /\ row[i] # None /\ row[j] # None)
            => TypeRank(row[i]) <= TypeRank(row[j])

\* C5 as stated: a row with at least one observed slot, its types arranged
\* in any way over the slots, decodes from its own encoding to a row equal
\* to it slot for slot (Python's ==).
C5_RoundTripAnyArrangement ==
    (cpc = "decoded" /\ ~AllUnobserved(data_row))
        => (decoded.err = "ok" /\ PyListEq(decoded.row, data_row))

\* C5 amended: a row with at least one observed slot whose observed slots
\* hold booleans before integers before reals decodes from its own encoding
\* to the very same row, each slot with its type and value.
C5_RoundTripTypeOrdered ==
    (cpc = "decoded" /\ ~AllUnobserved(data_row) /\ TypeOrdered(data_row))
        => (decoded.err = "ok" /\ decoded.row = data_row)

C5_Witness ==
    /\ cpc = "decoded"
    /\ Len(data_row) = 3
    /\ data_row[1].t = "bool" /\ data_row[2] = None /\ data_row[3].t = "float"
    /\ decoded.row = data_row

\* C6: an all-unobserved row of n >= 1 slots decodes from its own encoding
\* to a row of n unobserved slots.
C6_AllUnobservedRoundTrip ==
    (cpc = "decoded" /\ Len(data_row) >= 1 /\ AllUnobserved(data_row))
        => (decoded.err = "ok" /\ decoded.row = data_row)

IsEmptyNoneMask(pv) ==
    /\ pv.observed.sparsity = NONE
    /\ pv.booleans = <<>> /\ pv.counts = <<>> /\ pv.reals = <<>>

\* C7: the encoding of an all-unobserved row has both masks NONE and no
\* value in any typed list, whatever the Diff held before.
C7_NoneMaskDiff ==
    (cpc # "start" /\ AllUnobserved(data_row))
        => (IsEmptyNoneMask(diff.pos) /\ IsEmptyNoneMask(diff.neg))

C7_Witness ==
    /\ cpc = "encoded"
    /\ Len(data_row) >= 1 /\ AllUnobserved(data_row)
    /\ prior = UsedDiff
    /\ IsEmptyNoneMask(diff.pos) /\ IsEmptyNoneMask(diff.neg)

\* ------------------------------------------------------------------------
\* Properties of batch_score on a session used for nothing else
\* ------------------------------------------------------------------------
\* Requests the generator has sent whose responses it has not read.
Outstanding == gen.sent - gen.received

\* C1: the values yielded so far are, in order, the scores of the engine's
\* responses to the requests built from the first rows, and a generator
\* that is exhausted has yielded one value per row.
C1_BatchScoreOrder ==
    /\ Len(gen.yielded) <= Len(gen.rows)
    /\ Len(gen.yielded) = Len(gen.answers)
    /\ \A i \in 1..Len(gen.yielded) :
        /\ gen.answers[i].id = gen.ids[i]
        /\ gen.answers[i].kind = "score"
        /\ gen.answers[i].score.data
              = data_row_to_protobuf(gen.rows[i], EmptyDiff)
    /\ outcome.kind = "yield"
          => /\ outcome.value = outcome.response.score.score
             /\ outcome.value = gen.yielded[Len(gen.yielded)]
             /\ outcome.response.answers = gen.answers[Len(gen.answers)]
    /\ gen.state = "done" => Len(gen.yielded) = Len(gen.rows)

C1_Witness ==
    /\ gen.state = "done"
    /\ gen.buffer_size = 2
    /\ Len(gen.rows) = 3
    /\ gen.rows[1] # gen.rows[2]
    /\ gen.yielded = <<2, 1, 2>>

\* C8: a batch_score that is blocked in send or in receive is never stuck:
\* the client or the engine can take a step.
C8_BatchScoreNeverStuck ==
    (cur.op = "batch_score" /\ pc \in {"send", "receive"})
        => \/ pc = "send" /\ CanSend
           \/ pc = "receive" /\ CanReceive
           \/ EngineCanRead
           \/ EngineCanWrite

\* C9 as stated: with buffer_size >= 1 the requests sent and not yet
\* answered to the generator never number more than buffer_size.
C9_OutstandingAtMostBufferSize ==
    gen.buffer_size >= 1 => Outstanding <= gen.buffer_size

\* C9 amended: with buffer_size >= 1 the requests sent and not yet answered
\* to the generator never number more than buffer_size + 1.
C9_OutstandingAtMostBufferSizePlusOne ==
    gen.buffer_size >= 1 => Outstanding <= gen.buffer_size + 1

C9_Witness ==
    /\ gen.buffer_size = 2
    /\ gen.received = 0
    /\ Outstanding = 3

\* C10: with buffer_size = 0 at most one request is outstanding, and the
\* generator sends a request only when every earlier response has been read.
C10_StrictAlternation ==
    (gen.state # "none" /\ gen.buffer_size = 0)
        => /\ Outstanding <= 1
           /\ (pc = "send" /\ cur.op = "batch_score") => Outstanding = 0

C10_Witness ==
    /\ gen.buffer_size = 0
    /\ gen.state = "done"
    /\ Len(gen.yielded) = 3

\* ------------------------------------------------------------------------
\* Properties of sample on a session used for nothing else
\* ------------------------------------------------------------------------
\* C4: in every row sample returns, a slot that to_sample does not mark
\* holds the value the conditioning row has there, whatever the engine's
\* sample held at that slot.
C4_UnsampledSlotsFromConditioningRow ==
    (outcome.op = "sample" /\ outcome.kind = "return")
        => \A k \in 1..Len(outcome.value) :
             \A i \in 1..Len(outcome.args.to_sample) :
                (~outcome.args.to_sample[i] /\ i <= Len(outcome.value[k]))
                    => outcome.value[k][i] = outcome.args.conditioning_row[i]

\* ------------------------------------------------------------------------
\* Properties of a session
\* ------------------------------------------------------------------------
\* C2: a call or next(gen) that hands a result to its caller has read a
\* response whose id is the id of the request it had sent for it.
C2_ResultFromMatchingResponse ==
    (outcome.kind \in {"return", "yield"} /\ outcome.id # 0)
        => outcome.response.id = outcome.id

\* C3: a call that has read a response with a non-empty error list raises
\* the engine's error and hands no result to its caller, and the generator
\* of batch_score has yielded one value per response it read without error.
C3_ErrorResponseRaises ==
    /\ (outcome.kind # "none" /\ Len(outcome.response.error) > 0)
          => (outcome.kind = "raise" /\ outcome.exc = "Exception"
              /\ outcome.value = <<>>)
    /\ Len(gen.yielded)
          = gen.received - (IF gen.state = "failed" /\ gen.at = "end"
                            THEN 1 ELSE 0)

C3_Witness ==
    /\ outcome.op = "batch_score"
    /\ outcome.kind = "raise"
    /\ Len(outcome.response.error) > 0
    /\ gen.state = "failed"
    /\ gen.received = 2
    /\ Len(gen.yielded) = 1

\* ------------------------------------------------------------------------
\* Properties of the transport in a session
\* ------------------------------------------------------------------------
IsPrefix(a, b) == Len(a) <= Len(b) /\ \A i \in 1..Len(a) : a[i] = b[i]

C19_CloseNeverStuck ==
    (pc = "wait" /\ ~proc.exited)
        => (EngineCanRead \/ EngineCanWrite \/ EngineCanExit)

\* ------------------------------------------------------------------------
\* Properties of the checks a call makes before it sends
\* ------------------------------------------------------------------------
\* C13: a sample call builds a request only for a conditioning row as long
\* as to_sample, an omitted row being taken as one unobserved slot per slot
\* of to_sample; a sample call given a row of another length raises the
\* assertion's error in a step that draws no request id and leaves both
\* pipes, the engine and the counts of frames sent and read as they were.
C13_LengthMismatchBeforeSend ==
    [][/\ (nextId' # nextId /\ cur'.op = "sample")
            => /\ Len(cur'.args.conditioning_row) = Len(cur'.args.to_sample)
               /\ cur'.args.omitted
                    => /\ AllUnobserved(cur'.args.conditioning_row)
                       /\ cur'.request.sample.data
                            = none_to_protobuf(EmptyDiff)
       /\ (/\ pc = "idle"
           /\ outcome' # outcome
           /\ outcome'.op = "sample"
           /\ Len(outcome'.args.conditioning_row)
                # Len(outcome'.args.to_sample))
            => /\ outcome'.kind = "raise"
               /\ outcome'.exc = "AssertionError"
               /\ UNCHANGED <<stdin, stdout, engine, proc, nextId>>
               /\ pc' = "idle"
      ]_vars

C13_Witness ==
    /\ outcome.op = "sample"
    /\ outcome.kind = "raise"
    /\ outcome.exc = "AssertionError"
    /\ Len(outcome.args.to_sample) = 2
    /\ Len(outcome.args.conditioning_row) = 1
    /\ proc.sent = <<>>
    /\ nextId = 0

\* ------------------------------------------------------------------------
\* Properties of mutual_information and entropy
\* ------------------------------------------------------------------------
\* The features a list holds.
Members(list) == {list[i] : i \in DOMAIN list}

\* C12: mutual_information given an entropys mapping with entries for the
\* set of the features of its first list, for that of its second list and
\* for their union returns the estimate whose mean is the sum of the first
\* two means less the third and whose variance is the sum of the three
\* variances.
C12_MutualInformationComposition ==
    (outcome.op = "mutual_information" /\ outcome.args.entropys.given)
        => LET A == Members(outcome.args.lists[1])
               B == Members(outcome.args.lists[2])
               H == outcome.args.entropys.val
           IN {A, B, A \cup B} \subseteq DOMAIN H
                => /\ outcome.kind = "return"
                   /\ outcome.value.mean
                        = H[A].mean + H[B].mean - H[A \cup B].mean
                   /\ outcome.value.variance
                        = H[A].variance + H[B].variance
                            + H[A \cup B].variance

C12_Witness ==
    /\ outcome.op = "mutual_information"
    /\ outcome.kind = "return"
    /\ outcome.args.entropys.given
    /\ outcome.args.lists = <<<<2, 1>>, <<2>>>>
    /\ outcome.args.entropys.val[{1, 2}] = Estimate(2, 1)
    /\ outcome.args.entropys.val[{2}] = Estimate(1, 1)
    /\ outcome.value = Estimate(1, 3)

\* C11: the mapping entropy returns for a tile size of 1 or more has the
\* keys of the mapping entropy returns for the same lists with the default
\* tile size.
C11_TilingKeepsKeys ==
    (/\ outcome.op = "entropy"
     /\ outcome.kind = "return"
     /\ outcome.args.tile_size >= 1)
        => DOMAIN outcome.value
              = EntropyKeys(outcome.args.row_sets, outcome.args.col_sets,
                            tile_size_default)

C11_Witness ==
    /\ outcome.op = "entropy"
    /\ outcome.kind = "return"
    /\ outcome.args.tile_size = 1
    /\ outcome.args.row_sets = <<<<1>>, <<2, 1>>>>
    /\ outcome.args.col_sets = <<<<2>>, <<1>>>>
    /\ Len(proc.read) = 4
    /\ DOMAIN outcome.value = {{}, {1}, {2}, {1, 2}}

\* The sets of features a list of feature lists names, and the empty set.
DistinctSets(lists) == {Members(lists[k]) : k \in DOMAIN lists} \cup {{}}

\* The number of pairs of a row set and a column set of the tile a call of
\* entropy is at.
TileSize(e) ==
    Cardinality(DistinctSets(Slice(e.row_sets, e.i, e.tile)))
        * Cardinality(DistinctSets(Slice(e.col_sets, e.j, e.tile)))

\* C16: a call of entropy that has read a response without error whose
\* means or whose variances are not one per pair of a distinct row set and
\* a distinct column set of the tile, the empty set counted among both,
\* raises the assertion's error and returns no mapping.
C16_ResponseSizeChecked ==
    (/\ outcome.op = "entropy"
     /\ outcome.id # 0
     /\ outcome.response.error = <<>>
     /\ \/ Len(outcome.response.entropy.means) # TileSize(outcome.args)
        \/ Len(outcome.response.entropy.variances) # TileSize(outcome.args))
        => /\ outcome.kind = "raise"
           /\ outcome.exc = "AssertionError"
           /\ outcome.value = <<>>

C16_Witness ==
    /\ outcome.op = "entropy"
    /\ outcome.kind = "raise"
    /\ outcome.exc = "AssertionError"
    /\ outcome.args.row_sets = <<<<1, 2>>, <<2, 1>>>>
    /\ outcome.args.col_sets = <<<<1>>>>
    /\ outcome.args.tile_size = 2
    /\ Len(outcome.response.entropy.means) = 4
    /\ Len(outcome.response.entropy.variances) = 5

\* A list of messages holds the set S of features exactly once, as a
\* SPARSE message.
HoldsOnce(messages, S) ==
    Cardinality({k \in DOMAIN messages :
                    /\ messages[k].sparsity = SPARSE
                    /\ Members(messages[k].sparse) = S}) = 1

\* The messages are the sets of lists, each once, and the empty set once.
HoldsEachOnce(messages, lists) ==
    /\ \A S \in DistinctSets(lists) : HoldsOnce(messages, S)
    /\ Len(messages) = Cardinality(DistinctSets(lists))

\* C17: the request _entropy has built, and sends, lists as row sets every
\* distinct set of features among the row lists of its tile once and the
\* empty set once, and nothing else, and likewise as column sets.
C17_FeatureSetsOnceEach ==
    (cur.op = "entropy" /\ pc \in {"send", "receive"})
        => LET e == cur.args
           IN /\ HoldsEachOnce(cur.request.entropy.row_sets,
                               Slice(e.row_sets, e.i, e.tile))
              /\ HoldsEachOnce(cur.request.entropy.col_sets,
                               Slice(e.col_sets, e.j, e.tile))
              /\ \A k \in DOMAIN stdin : stdin[k] = cur.request

C17_Witness ==
    /\ cur.op = "entropy"
    /\ pc = "receive"
    /\ cur.args.row_sets = <<<<1, 2>>, <<2, 1>>>>
    /\ cur.args.col_sets = <<<<2>>, <<1>>>>
    /\ cur.args.tile >= 2
    /\ Len(cur.request.entropy.row_sets) = 2
    /\ Len(cur.request.entropy.col_sets) = 3
    /\ stdin = <<cur.request>>

\* The row holds an observed value that is no boolean, integer or real.
HasUnsupported(row) ==
    \E i \in DOMAIN row : row[i].t \notin {"none", "bool", "int", "float"}

\* The call hands data_row_to_protobuf a row with such a value.
EncodesUnsupported(args) ==
    \E k \in DOMAIN args.encoded : HasUnsupported(args.encoded[k])

\* C14: sample, score, entropy and score_derivative never come to send or
\* to receive for a call that encodes a row with a value of an unsupported
\* type; such a call raises KeyError in the step that draws its request
\* id, and that step leaves both pipes, the engine and the counts of frames
\* sent and read as they were.
C14_UnsupportedTypeBeforeSend ==
    [][/\ (/\ pc' \in {"send", "receive"}
           /\ cur'.op \in {"sample", "score", "entropy", "score_derivative"})
            => ~EncodesUnsupported(cur'.args)
       /\ (/\ nextId' # nextId
           /\ outcome'.kind # "none"
           /\ outcome'.op
                \in {"sample", "score", "entropy", "score_derivative"}
           /\ EncodesUnsupported(outcome'.args))
            => /\ outcome'.kind = "raise"
               /\ outcome'.exc = "KeyError"
               /\ pc = "idle"
               /\ pc' = "idle"
               /\ UNCHANGED <<stdin, stdout, engine, proc>>
      ]_vars

C14_Witness ==
    /\ outcome.op = "score_derivative"
    /\ outcome.kind = "raise"
    /\ outcome.exc = "KeyError"
    /\ Len(outcome.args.encoded) = 3
    /\ HasUnsupported(outcome.args.encoded[3])
    /\ proc.sent = <<>>
    /\ nextId = 1

\* ------------------------------------------------------------------------
\* Properties of the decoder
\* ------------------------------------------------------------------------
\* The number of slots the positive mask of a Diff marks observed.
MaskCount(d) ==
    Cardinality({i \in DOMAIN d.pos.observed.dense : d.pos.observed.dense[i]})

\* The number of values the three lists of a Diff hold.
ValueCount(d) == Len(d.pos.booleans) + Len(d.pos.counts) + Len(d.pos.reals)

\* C15: a Diff whose mask marks a number of slots other than the number of
\* values in its lists, fewer or more, is not decoded into a row: the
\* decoder fails.
C15_MalformedDiffRejected ==
    (cpc = "decoded" /\ MaskCount(diff) # ValueCount(diff))
        => (decoded.err # "ok" /\ decoded.row = <<>>)

\* The call was given arguments it does not reject itself: rows of
\* supported types, a conditioning row as long as to_sample, a tile size of
\* 1 or more.
AcceptsArguments(o) ==
    /\ ~EncodesUnsupported(o.args)
    /\ o.op = "sample"
          => Len(o.args.conditioning_row) = Len(o.args.to_sample)
    /\ o.op = "entropy" => o.args.tile_size >= 1

\* C20: once close() has closed the session, a call of sample, score,
\* entropy, score_derivative or mutual_information without entropys, and a
\* sequence obtained from batch_score after the close, end by raising the
\* error of the closed stream.
C20_CallsAfterCloseFail ==
    (/\ proc.stdin_closed
     /\ outcome.kind # "none"
     /\ \/ outcome.op \in {"sample", "score", "entropy", "score_derivative"}
        \/ outcome.op = "mutual_information" /\ ~outcome.args.entropys.given
        \/ outcome.op = "batch_score" /\ gen.closed
     /\ AcceptsArguments(outcome))
        => (outcome.kind = "raise" /\ outcome.exc = "ValueError")

\* ------------------------------------------------------------------------
\* Frames written and read by one call
\* ------------------------------------------------------------------------
\* The calls that send a request and read its response themselves.
DirectOps ==
    {"sample", "score", "score_derivative", "entropy", "mutual_information"}

\* The response at the head of stdout makes the call reading it fail: it
\* reports errors, or its lists have not the size _entropy asked for.
FailsCall(response) ==
    \/ HasError(response)
    \/ /\ cur.op \in {"entropy", "mutual_information"}
       /\ ~SizeMatches(response.entropy.means, response.entropy.variances,
                       Len(cur.args.rl) * Len(cur.args.cl))

\* C21: while the client is in sample, score, score_derivative or _entropy,
\* a request frame is written only by the one send of the call, once and
\* under an id not written before; the call reaches its receive only through
\* that send; a response frame is read only by the one receive of the call,
\* which ends the call or, in entropy, begins the next _entropy under a new
\* id; and a response that reports errors or has the wrong size ends the
\* call by raising, with no frame written.
C21_OneFramePerCall ==
    [][cur.op \in DirectOps =>
         /\ proc'.sent # proc.sent =>
              /\ pc = "send" /\ pc' = "receive"
              /\ cur.request.id \notin Members(proc.sent)
              /\ proc'.sent = Append(proc.sent, cur.request.id)
              /\ proc'.read = proc.read
         /\ (pc # "receive" /\ pc' = "receive") => proc'.sent # proc.sent
         /\ proc'.read # proc.read =>
              /\ pc = "receive"
              /\ Len(proc'.read) = Len(proc.read) + 1
              /\ proc'.sent = proc.sent
              /\ \/ pc' = "idle"
                 \/ /\ pc' = "send"
                    /\ cur.op \in {"entropy", "mutual_information"}
                    /\ cur'.request.id \notin Members(proc.sent)
              /\ FailsCall(Head(stdout)) =>
                    pc' = "idle" /\ outcome'.kind = "raise"
      ]_vars

\* The second call of the session, entropy, has read a response of the
\* wrong size and raised: two frames were written and two read, one by
\* each call.
C21_Witness ==
    /\ pc = "idle"
    /\ outcome.kind = "raise"
    /\ outcome.op = "entropy"
    /\ outcome.exc = "AssertionError"
    /\ outcome.id # 0
    /\ Len(proc.sent) = 2
    /\ Len(proc.read) = 2
    /\ proc.sent[2] = outcome.id

\* ------------------------------------------------------------------------
\* The rows sample returns
\* ------------------------------------------------------------------------
\* row holds every value that sample observes, at its slot.
HoldsObserved(row, sample) ==
    LET data_out == protobuf_to_data_row(sample).row
    IN /\ Len(row) = Len(data_out)
       /\ \A i \in 1..Len(row) : data_out[i] # None => row[i] = data_out[i]

\* C22: the list sample returns has one row per sample of the response it
\* read, whatever sample count the request asked for, and row k holds the
\* values observed in sample k.
C22_OneRowPerSample ==
    (outcome.kind = "return" /\ outcome.op = "sample") =>
        LET samples == outcome.response.sample.samples
        IN /\ Len(outcome.value) = Len(samples)
           /\ \A k \in 1..Len(samples) :
                HoldsObserved(outcome.value[k], samples[k])

\* sample asked for one sample, read a response with two different ones
\* and returned two rows.
C22_Witness ==
    /\ outcome.kind = "return"
    /\ outcome.op = "sample"
    /\ outcome.response.answers.sample.sample_count = 1
    /\ Len(outcome.response.sample.samples) = 2
    /\ Len(outcome.value) = 2
    /\ outcome.value[1] # outcome.value[2]

\* sample asked for more samples than the response holds and returned the
\* rows of the response only.
C22_WitnessFewer ==
    /\ outcome.kind = "return"
    /\ outcome.op = "sample"
    /\ outcome.response.answers.sample.sample_count = sample_sample_count
    /\ Len(outcome.response.sample.samples) = 1
    /\ Len(outcome.value) = 1

\* ------------------------------------------------------------------------
\* The pairs score_derivative returns
\* ------------------------------------------------------------------------
\* C23: when score_derivative returns after reading the engine's answer to
\* its own request, its result has one pair per id of the response, pair i
\* being (ids[i], score_diffs[i]), and as many pairs as the request names
\* score rows when it names any.
C23_OnePairPerComparedRow ==
    (/\ outcome.kind = "return"
     /\ outcome.op = "score_derivative"
     /\ outcome.response.answers.id = outcome.id) =>
        LET ids == outcome.response.score_derivative.ids
            score_diffs == outcome.response.score_derivative.score_diffs
            k == Len(outcome.response.answers.score_derivative.score_data)
        IN /\ Len(outcome.value) = Len(ids)
           /\ \A i \in 1..Len(ids) :
                outcome.value[i] = <<ids[i], score_diffs[i]>>
           /\ k > 0 => Len(outcome.value) = k

\* score_derivative was given two score rows and returned two pairs.
C23_Witness ==
    /\ outcome.kind = "return"
    /\ outcome.op = "score_derivative"
    /\ outcome.response.answers.id = outcome.id
    /\ Len(outcome.response.answers.score_derivative.score_data) = 2
    /\ Len(outcome.value) = 2
    /\ outcome.value[1][1] # outcome.value[2][1]

\* ------------------------------------------------------------------------
\* A batch_score sequence consumed to its end
\* ------------------------------------------------------------------------
\* C24: when the generator of batch_score has ended without error, it has
\* sent one score request per row and read one response per row, and the
\* session holds no request and no response that is still to be read.
C24_ExhaustedLeavesNothingOutstanding ==
    gen.state = "done" =>
        /\ gen.sent = Len(gen.rows)
        /\ gen.received = Len(gen.rows)
        /\ Len(proc.sent) = Len(gen.rows)
        /\ Len(proc.read) = Len(gen.rows)
        /\ stdin = <<>>
        /\ engine = NoRequest
        /\ stdout = <<>>

\* A generator over the longest list of rows, with a window of two, has
\* ended.
C24_Witness ==
    /\ gen.state = "done"
    /\ Len(gen.rows) = MaxRows
    /\ gen.buffer_size = 2
    /\ gen.sent = MaxRows
    /\ gen.received = MaxRows

\* ------------------------------------------------------------------------
\* The tiles of entropy
\* ------------------------------------------------------------------------
\* The number of row sets and of column sets entropy hands to _entropy for
\* the tile at offsets i, j.
RowChunk(e, i) == Len(Slice(e.row_sets, i, e.tile))

ColChunk(e, j) == Len(Slice(e.col_sets, j, e.tile))

\* C25: with a tile size of 1 or more, every request entropy has _entropy
\* build is for a chunk of row sets and a chunk of column sets whose sizes
\* multiply to at most the square of the tile size.
C25_TileCostBounded ==
    (cur.op = "entropy" /\ pc \in {"send", "receive"}
        /\ cur.args.tile_size >= 1) =>
        RowChunk(cur.args, cur.args.i) * ColChunk(cur.args, cur.args.j)
            <= cur.args.tile_size * cur.args.tile_size

\* One row set against five column sets with a tile size of 2: the tile
\* edge is 4 and the request in flight is for 1 row set and 4 column sets.
C25_Witness ==
    /\ cur.op = "entropy"
    /\ pc = "receive"
    /\ cur.args.tile_size = 2
    /\ Len(cur.args.row_sets) = 1
    /\ Len(cur.args.col_sets) = 5
    /\ cur.args.tile = 4
    /\ RowChunk(cur.args, cur.args.i) = 1
    /\ ColChunk(cur.args, cur.args.j) = 4

\* The tiles of e that hold the pair of row set a and column set b.
TilesHolding(e, a, b) ==
    {k \in 1..Len(e.tiles) :
        /\ e.tiles[k][1] < a
        /\ a <= e.tiles[k][1] + RowChunk(e, e.tiles[k][1])
        /\ e.tiles[k][2] < b
        /\ b <= e.tiles[k][2] + ColChunk(e, e.tiles[k][2])}

\* The least number of chunks of at most t elements that hold n elements.
Chunks(n, t) == (n + t - 1) \div t

\* C26: when entropy, called with a tile size of 1 or more, returns, its
\* tile edge T is the quotient of the squared tile size by
\* max(1, min(tile size, number of row sets, number of column sets)) and
\* is 1 or more; it has called _entropy for ceil(nr/T) * ceil(nc/T) tiles,
\* no tile twice, each of 1 to T row sets and 1 to T column sets; every
\* pair of a row set and a column set lies in exactly one tile; and one
\* request was sent per tile.
C26_TilesPartitionThePairs ==
    (outcome.kind = "return" /\ outcome.op = "entropy"
        /\ outcome.args.tile_size >= 1) =>
        LET e == outcome.args
            T == e.tile
            nr == Len(e.row_sets)
            nc == Len(e.col_sets)
            min_size == Max(1, Min(e.tile_size, Min(nr, nc)))
        IN /\ T >= 1
           /\ T * min_size <= e.tile_size * e.tile_size
           /\ e.tile_size * e.tile_size < (T + 1) * min_size
           /\ Len(e.tiles) = Chunks(nr, T) * Chunks(nc, T)
           /\ \A k, l \in 1..Len(e.tiles) :
                e.tiles[k] = e.tiles[l] => k = l
           /\ \A k \in 1..Len(e.tiles) :
                /\ RowChunk(e, e.tiles[k][1]) \in 1..T
                /\ ColChunk(e, e.tiles[k][2]) \in 1..T
           /\ \A a \in 1..nr, b \in 1..nc :
                Cardinality(TilesHolding(e, a, b)) = 1
           /\ Len(proc.sent) = Len(e.tiles)

\* entropy over five row sets and three column sets with a tile size of 2
\* has returned after six tiles.
C26_Witness ==
    /\ outcome.kind = "return"
    /\ outcome.op = "entropy"
    /\ outcome.args.tile_size = 2
    /\ Len(outcome.args.row_sets) = 5
    /\ Len(outcome.args.col_sets) = 3
    /\ outcome.args.tile = 2
    /\ Len(outcome.args.tiles) = 6
    /\ Len(proc.sent) = 6

\* ------------------------------------------------------------------------
\* The mapping _entropy returns
\* ------------------------------------------------------------------------
\* C27: when entropy returns after a single call of _entropy that read the
\* answer to its own request, the keys of the result are the unions of a
\* row set and a column set, each taken from the distinct sets passed or
\* the empty set; and the estimate under a key is the mean and variance at
\* the row-major index of the last pair of sets of the request, in request
\* order, whose union is the key.
C27_EntropyDictKeysAndValues ==
    (/\ outcome.kind = "return"
     /\ outcome.op = "entropy"
     /\ Len(outcome.args.tiles) = 1
     /\ outcome.response.answers.id = outcome.id) =>
        LET sent == outcome.response.answers.entropy
            nc == Len(sent.col_sets)
            pairs == (1..Len(sent.row_sets)) \X (1..nc)
            union(p) == Members(sent.row_sets[p[1]].sparse)
                          \cup Members(sent.col_sets[p[2]].sparse)
            at(p) == (p[1] - 1) * nc + p[2]
            means == outcome.response.entropy.means
            variances == outcome.response.entropy.variances
        IN /\ DOMAIN outcome.value =
                {r \cup c : r \in DistinctSets(outcome.args.row_sets),
                            c \in DistinctSets(outcome.args.col_sets)}
           /\ \A key \in DOMAIN outcome.value :
                \E p \in pairs :
                    /\ union(p) = key
                    /\ \A q \in pairs : union(q) = key => at(q) <= at(p)
                    /\ outcome.value[key].mean = means[at(p)]
                    /\ outcome.value[key].variance = variances[at(p)]

\* One call of _entropy for two different row sets and two different
\* column sets: nine pairs, of which several have the same union.
C27_Witness ==
    /\ outcome.kind = "return"
    /\ outcome.op = "entropy"
    /\ Len(outcome.args.tiles) = 1
    /\ outcome.response.answers.id = outcome.id
    /\ Len(outcome.response.answers.entropy.row_sets) = 3
    /\ Len(outcome.response.answers.entropy.col_sets) = 3
    /\ Len(outcome.response.entropy.means) = 9
    /\ Cardinality(DOMAIN outcome.value) < 9

\* ------------------------------------------------------------------------
\* mutual_information and the transport
\* ------------------------------------------------------------------------
\* C28: a call of mutual_information that was given entropys ends in the
\* step that begins it, leaving both pipes, the engine and the record of
\* frames written and read as they were; a call that was not given
\* entropys sends a request only for the entropy of the set of
\* feature_set1 as the one row set and the set of feature_set2 as the one
\* column set, each with the empty set, and returns an estimate only after
\* that request was written and a response was read.
C28_EntropysGivenLeavesTransport ==
    [][/\ (/\ outcome' # outcome
           /\ outcome'.op = "mutual_information"
           /\ outcome'.args.entropys.given) =>
              /\ pc = "idle"
              /\ pc' = "idle"
              /\ UNCHANGED <<stdin, stdout, engine, proc>>
       /\ (/\ cur'.op = "mutual_information"
           /\ pc' = "send") =>
              /\ ~cur'.args.entropys.given
              /\ cur'.request.kind = "entropy"
              /\ {Members(cur'.request.entropy.row_sets[i].sparse) :
                     i \in DOMAIN cur'.request.entropy.row_sets}
                   = {Members(cur'.args.lists[1]), {}}
              /\ {Members(cur'.request.entropy.col_sets[i].sparse) :
                     i \in DOMAIN cur'.request.entropy.col_sets}
                   = {Members(cur'.args.lists[2]), {}}
       /\ (/\ outcome' # outcome
           /\ outcome'.op = "mutual_information"
           /\ outcome'.kind = "return"
           /\ ~outcome'.args.entropys.given) =>
              /\ proc'.sent = <<outcome'.id>>
              /\ Len(proc'.read) = 1
              /\ outcome'.response.answers.kind = "entropy"
      ]_vars

\* mutual_information was given entropys and returned an estimate, with
\* nothing written or read.
C28_Witness ==
    /\ outcome.op = "mutual_information"
    /\ outcome.kind = "return"
    /\ outcome.args.entropys.given
    /\ outcome.args.lists = <<<<1>>, <<2, 1>>>>
    /\ proc = ProcStarted
    /\ stdin = <<>>

\* mutual_information was not given entropys and returned an estimate
\* after one request and one response.
C28_WitnessOmitted ==
    /\ outcome.op = "mutual_information"
    /\ outcome.kind = "return"
    /\ ~outcome.args.entropys.given
    /\ outcome.args.lists = <<<<1>>, <<2, 1>>>>
    /\ Len(proc.sent) = 1
    /\ Len(proc.read) = 1

\* ------------------------------------------------------------------------
\* send and the write buffer
\* ------------------------------------------------------------------------
\* The frames that have left the client: those waiting in the pipe, the one
\* the engine holds, and those the engine has answered.
Delivered ==
    Len(stdin) + (IF engine = NoRequest THEN 0 ELSE 1) + Len(proc.written)

\* C29: whenever the client is blocked in receive, the file object of
\* proc.stdin holds no frame, and every frame the client has sent is in the
\* pipe, with the engine, or answered.
C29_NothingBufferedInReceive ==
    pc = "receive" =>
        /\ proc.buffered = <<>>
        /\ Len(proc.sent) = Delivered

\* The client is blocked in the receive of its second call while the frame
\* it sent is in the pipe, not yet read by the engine.
C29_Witness ==
    /\ pc = "receive"
    /\ cur.op \in DirectOps
    /\ Len(proc.sent) = 2
    /\ Len(stdin) = 1
    /\ stdin[1].id = cur.request.id
    /\ proc.buffered = <<>>

\* ------------------------------------------------------------------------
\* The order of close()
\* ------------------------------------------------------------------------
\* C30: whenever close() is waiting for the engine process to terminate,
\* the stdin of the process is closed.
C30_ClosedBeforeWait ==
    pc = "wait" => proc.stdin_closed

\* close() waits for an engine that still holds a request of a batch_score
\* sequence left part-way.
C30_Witness ==
    /\ pc = "wait"
    /\ cur.op = "close"
    /\ proc.stdin_closed
    /\ ~proc.exited
    /\ engine # NoRequest

\* ------------------------------------------------------------------------
\* The Diff of a row with observed slots
\* ------------------------------------------------------------------------
\* The numbers of the values of type t in row, in slot order.
ValuesOfType(row, t) ==
    LET chosen == SelectSeq(row, LAMBDA val : val.t = t)
    IN [i \in 1..Len(chosen) |-> chosen[i].v]

\* The number of observed slots of row.
ObservedCount(row) == Cardinality({i \in 1..Len(row) : row[i] # None})

\* C31: the encoding of a row with at least one observed slot, whatever the
\* Diff held before, has the negative mask NONE and a DENSE positive mask
\* with one boolean per slot, true at the observed slots and nowhere else;
\* booleans, counts and reals hold the observed values of their type in
\* slot order, and their lengths add up to the number of observed slots.
C31_DenseEncoding ==
    (cpc \in {"encoded", "decoded"} /\ ~AllUnobserved(data_row)) =>
        /\ diff.neg.observed.sparsity = NONE
        /\ diff.pos.observed.sparsity = DENSE
        /\ diff.pos.observed.dense
             = [i \in 1..Len(data_row) |-> data_row[i] # None]
        /\ diff.pos.booleans = ValuesOfType(data_row, "bool")
        /\ diff.pos.counts = ValuesOfType(data_row, "int")
        /\ diff.pos.reals = ValuesOfType(data_row, "float")
        /\ Len(diff.pos.booleans) + Len(diff.pos.counts)
             + Len(diff.pos.reals) = ObservedCount(data_row)

\* A row holding an integer, an unobserved slot and a boolean was encoded
\* into a Diff that had been used before.
C31_Witness ==
    /\ cpc = "encoded"
    /\ prior = UsedDiff
    /\ Len(data_row) = 3
    /\ data_row[1] = PyInt(1) /\ data_row[2] = None /\ data_row[3] = PyBool(0)
    /\ diff.pos.observed.dense = <<TRUE, FALSE, TRUE>>
    /\ diff.pos.booleans = <<0>>
    /\ diff.pos.counts = <<1>>

\* ------------------------------------------------------------------------
\* Decoding a SPARSE mask
\* ------------------------------------------------------------------------
\* d with its SPARSE positive mask written as the DENSE mask of n slots
\* that marks the same slots.
AsDense(d, n) ==
    [d EXCEPT !.pos.observed =
        [sparsity |-> DENSE,
         dense |-> [i \in 1..n |-> (i - 1) \in Members(d.pos.observed.sparse)],
         sparse |-> <<>>]]

\* C32: a Diff whose positive mask is SPARSE and whose lists hold one value
\* per listed slot decodes without error to the row that the DENSE mask
\* marking the same slots, over some number of slots, decodes to: the row
\* has a value at every listed slot.
C32_SparseDecodesAsDense ==
    (/\ cpc = "decoded"
     /\ diff.pos.observed.sparsity = SPARSE
     /\ ValueCount(diff) = Len(diff.pos.observed.sparse)) =>
        /\ decoded.err = "ok"
        /\ \E n \in 0..MaxSlots :
             /\ \A k \in 1..Len(diff.pos.observed.sparse) :
                  diff.pos.observed.sparse[k] < n
             /\ decoded = protobuf_to_data_row(AsDense(diff, n))

\* ------------------------------------------------------------------------
\* The request of score_derivative
\* ------------------------------------------------------------------------
\* C33: the request score_derivative sends holds the encoding of the
\* update row, the row limit given or 1000 when none is given, and one Diff
\* per score row given, in the order given, each the encoding of its row
\* into an empty Diff; it holds no Diff when score rows are left out.
C33_DerivRequestContents ==
    (cur.op = "score_derivative" /\ pc \in {"send", "receive"}) =>
        LET sent == cur.request.score_derivative
            score_rows == cur.args.score_rows
        IN /\ sent.update_data
                = data_row_to_protobuf(cur.args.update_row, EmptyDiff)
           /\ sent.row_limit = IF cur.args.row_limit.given
                               THEN cur.args.row_limit.val
                               ELSE 1000
           /\ ~score_rows.given => sent.score_data = <<>>
           /\ score_rows.given =>
                /\ Len(sent.score_data) = Len(score_rows.val)
                /\ \A k \in 1..Len(score_rows.val) :
                     sent.score_data[k]
                       = data_row_to_protobuf(score_rows.val[k], EmptyDiff)

\* score_derivative is about to send a request for two score rows with
\* different observed slots.
C33_Witness ==
    /\ cur.op = "score_derivative"
    /\ pc = "send"
    /\ cur.args.score_rows.given
    /\ Len(cur.request.score_derivative.score_data) = 2
    /\ cur.request.score_derivative.score_data[1].pos.observed.dense
         = <<TRUE, FALSE>>
    /\ cur.request.score_derivative.score_data[2].pos.observed.dense
         = <<FALSE, TRUE>>
    /\ cur.request.score_derivative.row_limit = 1000

\* score_derivative is about to send a request that names no score row.
C33_WitnessOmitted ==
    /\ cur.op = "score_derivative"
    /\ pc = "send"
    /\ ~cur.args.score_rows.given
    /\ cur.request.score_derivative.score_data = <<>>
    /\ cur.request.score_derivative.row_limit = 1

\* ------------------------------------------------------------------------
\* Requests and responses at the end of an operation
\* ------------------------------------------------------------------------
\* C34: whenever an operation of the session has returned or raised, as
\* many response frames have been read as request frames were written.
C34_SentEqualsReadAfterOperation ==
    (pc = "idle" /\ outcome.kind \in {"return", "raise"}) =>
        Len(proc.sent) = Len(proc.read)

\* ------------------------------------------------------------------------
\* A call made between two values of a batch_score sequence
\* ------------------------------------------------------------------------
\* C35: a call of score, sample, entropy or score_derivative that returns
\* while a batch_score sequence is suspended part-way has read the
\* engine's answer to its own request, and every value the sequence has
\* yielded comes from the answer to the request sent for its row.
C35_InterleavedCallKeepsPairing ==
    /\ (/\ gen.state = "suspended"
        /\ outcome.kind = "return"
        /\ outcome.op \in {"score", "sample", "entropy", "score_derivative"}
        /\ outcome.id # 0) =>
            outcome.response.answers.id = outcome.id
    /\ \A i \in 1..Len(gen.yielded) : gen.answers[i].id = gen.ids[i]

\* ------------------------------------------------------------------------
\* batch_score is lazy
\* ------------------------------------------------------------------------
\* C36: the call of batch_score writes no frame; a frame is written only
\* in a step of the generator while it runs for a next(); and when the
\* generator yields its k-th value it has sent at most k + buffer_size
\* requests and at most one per row.
C36_BatchScoreLazy ==
    [][/\ (gen.state = "none" /\ gen'.state # "none") =>
              /\ gen'.state = "suspended"
              /\ gen'.sent = 0
              /\ UNCHANGED <<stdin, stdout, engine, proc>>
       /\ gen'.sent # gen.sent =>
              /\ gen.state = "running"
              /\ pc = "send"
       /\ gen'.yielded # gen.yielded =>
              gen'.sent <= Min(Len(gen'.rows),
                               Len(gen'.yielded) + gen'.buffer_size)
      ]_vars

\* The generator over three rows with a window of one yields its first
\* value after it has sent two requests.
C36_Witness ==
    /\ outcome.kind = "yield"
    /\ Len(gen.rows) = 3
    /\ gen.buffer_size = 1
    /\ Len(gen.yielded) = 1
    /\ gen.sent = 2

\* ------------------------------------------------------------------------
\* The lookups of mutual_information
\* ------------------------------------------------------------------------
\* The response has one mean and one variance per pair of a row set and a
\* column set of the request it answers.
RightSize(response) ==
    LET size == Len(response.answers.entropy.row_sets)
                  * Len(response.answers.entropy.col_sets)
    IN /\ response.answers.kind = "entropy"
       /\ Len(response.entropy.means) = size
       /\ Len(response.entropy.variances) = size

\* C37: a call of mutual_information without entropys that has read a
\* response without errors and of the right size returns an estimate, and
\* the mapping it computed holds an entry for the set of feature_set1, for
\* the set of feature_set2 and for their union.
C37_LookupsAlwaysFound ==
    (/\ outcome.op = "mutual_information"
     /\ outcome.kind # "none"
     /\ ~outcome.args.entropys.given
     /\ outcome.id # 0
     /\ ~HasError(outcome.response)
     /\ RightSize(outcome.response)) =>
        /\ outcome.kind = "return"
        /\ {outcome.args.feature_set1, outcome.args.feature_set2,
            outcome.args.feature_set1 \cup outcome.args.feature_set2}
             \subseteq DOMAIN outcome.args.result

\* mutual_information of a feature set with itself, given in two orders,
\* has returned an estimate computed from one response.
C37_Witness ==
    /\ outcome.op = "mutual_information"
    /\ outcome.kind = "return"
    /\ ~outcome.args.entropys.given
    /\ outcome.args.lists = <<<<1, 2>>, <<2, 1>>>>
    /\ RightSize(outcome.response)
    /\ DOMAIN outcome.args.result = {{}, {1, 2}}

\* mutual_information of the empty feature set with itself has returned.
C37_WitnessEmpty ==
    /\ outcome.op = "mutual_information"
    /\ outcome.kind = "return"
    /\ ~outcome.args.entropys.given
    /\ outcome.args.lists = <<<<>>, <<>>>>
    /\ DOMAIN outcome.args.result = {{}}

\* ------------------------------------------------------------------------
\* The entry of the empty feature set
\* ------------------------------------------------------------------------
\* C38: the mapping a call of entropy returns has an entry for the empty
\* feature set.
C38_EmptySetAlwaysPresent ==
    (outcome.op = "entropy" /\ outcome.kind = "return") =>
        {} \in DOMAIN outcome.value

\* ------------------------------------------------------------------------
\* The slots sample was asked to sample
\* ------------------------------------------------------------------------
\* C39: every row sample returns holds a value at every slot that
\* to_sample marks.
C39_ToSampleSlotsObserved ==
    (outcome.op = "sample" /\ outcome.kind = "return") =>
        \A k \in 1..Len(outcome.value) :
            \A i \in 1..Len(outcome.args.to_sample) :
                outcome.args.to_sample[i] =>
                    /\ i <= Len(outcome.value[k])
                    /\ outcome.value[k][i] # None

\* The same for the slots a returned row does have: none that to_sample
\* marks is unobserved.
C39_NoUnobservedSlotMarked ==
    (outcome.op = "sample" /\ outcome.kind = "return") =>
        \A k \in 1..Len(outcome.value) :
            \A i \in 1..Len(outcome.value[k]) :
                (i <= Len(outcome.args.to_sample)
                    /\ outcome.args.to_sample[i]) =>
                        outcome.value[k][i] # None

====
